---- MODULE Spec2Model ----
(***************************************************************************)
(* A model of VIZIA: the style system (the entity tree, the style store,   *)
(* the selector matcher, the matched-rule cache and the restyle pass of    *)
(* crates/vizia_core/src/systems/style.rs), the core Context and its       *)
(* proxy (core/src/context.rs), the draw context (core/src/context/        *)
(* draw.rs) and the winit Application (crates/vizia_winit).                *)
(***************************************************************************)
EXTENDS Integers, Sequences, FiniteSets, TLC

\* Option<T>: None is the empty tuple, Some(x) the one-element tuple.
None == <<>>
Some(x) == <<x>>
IsSome(o) == Len(o) = 1
Unwrap(o) == o[1]

\* ---------------------------------------------------------------- bounds

\* How many mutations (class toggles, inline values, restyle marks) a run makes.
MaxMutations == 1

\* The number of children of the root of the wide tree.
WideSiblings == 52

\* ------------------------------------------------------------------ state

VARIABLES
    tree,            \* Tree<Entity>: [parent: entity -> Option<entity>, ignored: set]
    views,           \* views: entity -> Option<element name> (view.element())
    ids,             \* style.ids: entity -> Option<id>
    classes,         \* style.classes: entity -> Option<set of class names>
    pseudo_classes,  \* style.pseudo_classes: entity -> Option<set of flags>
    rules,           \* style.rules: the ordered rule set (declaration order)
    props,           \* the style properties: property -> entity -> data index
    inline_data,     \* the inline values: property -> owning entity -> Option<value>
    restyle,         \* style.restyle: the entities to restyle
    relayout,        \* style.system_flags contains RELAYOUT
    text_update,     \* entities marked by style.needs_text_update
    redrawn,         \* entities handed to cx.needs_redraw, in call order
    pc,              \* "idle", "matching" (in style_system), "presented" (after it)
    iterator,        \* style_system: what is left of TreeBreadthIterator::full
    parent,          \* style_system: local `parent`
    cache,           \* style_system: local `cache: Vec<MatchedRulesCache>`
    redraw_entities, \* style_system: local `redraw_entities`
    pass,            \* observation: what the current call of style_system did
    last,            \* observation: what the previous completed call did
    budget,          \* observation: the mutations made
    cx,              \* core Context: its entity tables, style rules and resources
    files,           \* the file system: path -> Option<contents>
    probe,           \* observation: the last call of a pure function and its result
    obs,             \* observation: what the last operation on the Context did
    app,             \* winit Application: windows, Context queue, event loop, thread
    draw             \* DrawContext: the dpi factor and the calls made on it

vars == <<tree, views, ids, classes, pseudo_classes, rules, props, inline_data,
          restyle, relayout, text_update, redrawn, pc, iterator, parent, cache,
          redraw_entities, pass, last, budget, cx, files, probe, obs, app, draw>>

\* The state of the core Context and of what surrounds it.
context_vars == <<cx, files, probe, obs, app, draw>>

\* The state of the windowing shell and of the draw context.
shell_vars == <<app, draw>>

\* The state of the style system.
style_vars == <<tree, views, ids, classes, pseudo_classes, rules, props, inline_data,
                restyle, relayout, text_update, redrawn, pc, iterator, parent, cache,
                redraw_entities, pass, last, budget>>

\* ------------------------------------------------------------------- tree

\* Vec::reverse
RECURSIVE reverse(_)
reverse(s) == IF s = <<>> THEN <<>> ELSE Append(reverse(Tail(s)), Head(s))

Entities == DOMAIN tree.parent
Root == 0

\* Tree::get_parent
get_parent(e) == tree.parent[e]

\* The children of p, in order (entities are numbered in the order of creation).
Children(p) ==
    SelectSeq([i \in 1..Cardinality(Entities) |-> i - 1],
              LAMBDA e : get_parent(e) = Some(p))

\* Tree::has_children
has_children(e) == Children(e) # <<>>

\* Tree::is_first_child: e is the first child of its (structural) parent.
is_first_child(e) ==
    /\ IsSome(get_parent(e))
    /\ Children(Unwrap(get_parent(e)))[1] = e

\* Tree::is_last_child: e is the last child of its (structural) parent.
is_last_child(e) ==
    /\ IsSome(get_parent(e))
    /\ LET cs == Children(Unwrap(get_parent(e))) IN cs[Len(cs)] = e

\* Tree::get_layout_parent: the nearest ancestor that is not ignored.
RECURSIVE get_layout_parent(_)
get_layout_parent(e) ==
    LET p == get_parent(e) IN
    IF ~IsSome(p) THEN None
    ELSE IF Unwrap(p) \in tree.ignored THEN get_layout_parent(Unwrap(p))
    ELSE p

\* The layout row of children cs: the children in order, an ignored child
\* followed by the layout row of its own children.
RECURSIVE LayoutRowOfSeq(_)
LayoutRowOfSeq(cs) ==
    IF cs = <<>> THEN <<>>
    ELSE (IF Head(cs) \in tree.ignored
          THEN <<Head(cs)>> \o LayoutRowOfSeq(Children(Head(cs)))
          ELSE <<Head(cs)>>) \o LayoutRowOfSeq(Tail(cs))

IndexOf(s, x) == CHOOSE i \in 1..Len(s) : s[i] = x

\* The layout row e stands in: that of the children of its layout parent.
LayoutRow(e) ==
    IF IsSome(get_layout_parent(e))
    THEN LayoutRowOfSeq(Children(Unwrap(get_layout_parent(e))))
    ELSE <<e>>

\* The layout siblings before e (after e), nearest first: the entities of its
\* row that are not ignored.
PrevLayoutSiblings(e) ==
    LET row == LayoutRow(e) i == IndexOf(row, e)
    IN SelectSeq(reverse(SubSeq(row, 1, i - 1)), LAMBDA x : x \notin tree.ignored)

NextLayoutSiblings(e) ==
    LET row == LayoutRow(e) i == IndexOf(row, e)
    IN SelectSeq(SubSeq(row, i + 1, Len(row)), LAMBDA x : x \notin tree.ignored)

\* Tree::get_prev_layout_sibling
get_prev_layout_sibling(e) ==
    IF PrevLayoutSiblings(e) = <<>> THEN None ELSE Some(PrevLayoutSiblings(e)[1])

\* Tree::get_next_layout_sibling
get_next_layout_sibling(e) ==
    IF NextLayoutSiblings(e) = <<>> THEN None ELSE Some(NextLayoutSiblings(e)[1])

\* LayoutParentIterator: the layout ancestors of e, nearest first.
RECURSIVE LayoutAncestors(_)
LayoutAncestors(e) ==
    LET p == get_layout_parent(e) IN
    IF IsSome(p) THEN <<Unwrap(p)>> \o LayoutAncestors(Unwrap(p)) ELSE <<>>

\* TreeIterator (tree.into_iter()): depth-first, parents before children.
RECURSIVE DepthFirstSeq(_)
DepthFirstSeq(cs) ==
    IF cs = <<>> THEN <<>>
    ELSE <<Head(cs)>> \o DepthFirstSeq(Children(Head(cs))) \o DepthFirstSeq(Tail(cs))

TreeIterator == DepthFirstSeq(<<Root>>)

\* TreeBreadthIterator::full: breadth-first, level by level.
RECURSIVE BreadthFirstSeq(_)
BreadthFirstSeq(queue) ==
    IF queue = <<>> THEN <<>>
    ELSE <<Head(queue)>> \o BreadthFirstSeq(Tail(queue) \o Children(Head(queue)))

TreeBreadthIterator == BreadthFirstSeq(<<Root>>)

\* ------------------------------------------------------------ style store

\* A data index of a property for one entity (DataIndex): null, or an index
\* into the inline data or the shared (rule) data, with the inherited bit.
\* `index` is the entity owning the inline value, or the rule of the shared one.
NullIndex == [kind |-> "null", inherited |-> FALSE, index |-> 0]
InlineIndex(owner, inh) == [kind |-> "inline", inherited |-> inh, index |-> owner]
SharedIndex(rule, inh) == [kind |-> "shared", inherited |-> inh, index |-> rule]

\* The rule of the rule set with identifier r.
RuleOf(r) == rules[CHOOSE i \in 1..Len(rules) : rules[i].rule = r]

\* shared_data of property p: the value rule r declares for p, if any.
SharedData(p, r) ==
    IF p \in DOMAIN RuleOf(r).decls THEN Some(RuleOf(r).decls[p]) ELSE None

\* StyleSet::get / AnimatableSet::get on the data indices P: the resolved value
\* of p on e.
GetIn(P, p, e) ==
    LET d == P[p][e] IN
    CASE d.kind = "inline" -> inline_data[p][d.index]
      [] d.kind = "shared" -> SharedData(p, d.index)
      [] OTHER -> None

Get(p, e) == GetIn(props, p, e)

\* -------------------------------------------------------- selector matcher

\* A selector is a sequence of compound selectors, the subject last; `comb` of a
\* compound is the combinator that joins it to the compound on its left.
\*   el   "*" or an element name        id   "" or an id
\*   cls  class names                   pcs  non-tree-structural pseudo-classes
\*   nth  None or Some([ty, a, b]) (Component::Nth)
\*   empty  TRUE for :empty
Compound(el, id, cls, pcs, nth, comb) ==
    [el |-> el, id |-> id, cls |-> cls, pcs |-> pcs, nth |-> nth,
     empty |-> FALSE, comb |-> comb]

Nth(ty, a, b) == Some([ty |-> ty, a |-> a, b |-> b])

\* Selector::specificity: ids << 20 | classes, pseudo-classes << 10 | elements.
CompoundSpecificity(c) ==
    (IF c.id # "" THEN 1048576 ELSE 0)
    + 1024 * (Cardinality(c.cls) + Cardinality(c.pcs)
              + (IF IsSome(c.nth) THEN 1 ELSE 0) + (IF c.empty THEN 1 ELSE 0))
    + (IF c.el # "*" THEN 1 ELSE 0)

RECURSIVE specificity(_)
specificity(sel) ==
    IF sel = <<>> THEN 0
    ELSE CompoundSpecificity(Head(sel)) + specificity(Tail(sel))

\* Element::has_local_name
has_local_name(e, name) ==
    IF IsSome(views[e]) THEN Unwrap(views[e]) = name ELSE FALSE

\* Element::is_same_type
is_same_type(e, other) ==
    IF IsSome(views[e]) /\ IsSome(views[other])
    THEN Unwrap(views[e]) = Unwrap(views[other]) ELSE FALSE

\* Element::has_id
has_id(e, name) == IF IsSome(ids[e]) THEN Unwrap(ids[e]) = name ELSE FALSE

\* Element::has_class
has_class(e, name) ==
    IF IsSome(classes[e]) THEN name \in Unwrap(classes[e]) ELSE FALSE

\* Element::is_empty
is_empty(e) == ~has_children(e)

\* Element::is_root
is_root(e) == e = Root

\* The pseudo-classes that read a bit of PseudoClassFlags, with their bit.
FlagOf ==
    [Hover |-> "HOVER", Active |-> "ACTIVE", Focus |-> "FOCUS", Checked |-> "CHECKED"]

\* The pseudo-classes the matcher does not implement.
Unimplemented == {"Lang", "Dir", "Custom"}

\* Element::match_non_ts_pseudo_class: "true", "false", or "todo" (todo!() panics).
match_non_ts_pseudo_class(e, pseudo) ==
    IF IsSome(pseudo_classes[e]) THEN
        CASE pseudo = "Enabled" ->
                 IF IsSome(Get("disabled", e))
                 THEN (IF Unwrap(Get("disabled", e)) = "true" THEN "false" ELSE "true")
                 ELSE "true"
          [] pseudo = "Disabled" ->
                 IF IsSome(Get("disabled", e)) THEN Unwrap(Get("disabled", e)) ELSE "false"
          [] pseudo \in Unimplemented -> "todo"
          [] OTHER ->
                 IF FlagOf[pseudo] \in Unwrap(pseudo_classes[e]) THEN "true" ELSE "false"
    ELSE "false"

\* The 1-based position of e among its layout siblings, counted through
\* prev_sibling_element (from_end: through next_sibling_element).
CountPrev(e) == Len(PrevLayoutSiblings(e))

CountNext(e) == Len(NextLayoutSiblings(e))

\* index = a*n + b for some n >= 0
MatchesAnPlusB(index, a, b) ==
    \E n \in 0..index : a * n + b = index

\* Component::Nth
match_nth(e, nth) ==
    CASE nth.ty = "OnlyChild" ->
             ~IsSome(get_prev_layout_sibling(e)) /\ ~IsSome(get_next_layout_sibling(e))
      [] nth.ty = "LastChild" -> MatchesAnPlusB(CountNext(e) + 1, nth.a, nth.b)
      [] OTHER -> MatchesAnPlusB(CountPrev(e) + 1, nth.a, nth.b)

\* One compound selector against e (matches_simple_selector over its components).
matches_compound(e, c) ==
    /\ c.el = "*" \/ has_local_name(e, c.el)
    /\ c.id = "" \/ has_id(e, c.id)
    /\ \A name \in c.cls : has_class(e, name)
    /\ \A pseudo \in c.pcs : match_non_ts_pseudo_class(e, pseudo) = "true"
    /\ IsSome(c.nth) => match_nth(e, Unwrap(c.nth))
    /\ c.empty => is_empty(e)

\* The prefix sel[1..n] matches with e as the subject of compound n.
RECURSIVE matches_complex(_, _, _)
matches_complex(e, sel, n) ==
    /\ matches_compound(e, sel[n])
    /\ \/ n = 1
       \/ /\ n > 1
          /\ LET comb == sel[n].comb IN
             CASE comb = "child" ->
                      /\ IsSome(get_layout_parent(e))
                      /\ matches_complex(Unwrap(get_layout_parent(e)), sel, n - 1)
               [] comb = "descendant" ->
                      \E i \in 1..Len(LayoutAncestors(e)) :
                          matches_complex(LayoutAncestors(e)[i], sel, n - 1)
               [] comb = "next" ->
                      /\ IsSome(get_prev_layout_sibling(e))
                      /\ matches_complex(Unwrap(get_prev_layout_sibling(e)), sel, n - 1)
               [] OTHER ->
                      \E i \in 1..Len(PrevLayoutSiblings(e)) :
                          matches_complex(PrevLayoutSiblings(e)[i], sel, n - 1)

\* matches_selector(selector, 0, None, &Node {entity, ..}, &mut context)
matches_selector(sel, e) == matches_complex(e, sel, Len(sel))

\* ------------------------------------------------- style store operations

\* The style properties of the model, one for each effect class of the store.
PropNames ==
    {"disabled", "display", "background_color", "font_size", "font_color", "caret_color"}

\* An entity holds a value of its own: inline and not inherited, or linked to a rule.
HasOwnValue(d) == d.kind # "null" /\ ~d.inherited

\* StyleSet::inherit_inline, on the data indices of one property: the index of
\* `entity` after inheriting from `parent_entity`.
inherit_inline(P, entity, parent_entity) ==
    LET d == P[entity] pd == P[parent_entity] IN
    IF pd.kind = "inline" /\ ~HasOwnValue(d) THEN InlineIndex(pd.index, TRUE) ELSE d

\* StyleSet::inherit_shared
inherit_shared(P, entity, parent_entity) ==
    LET d == P[entity] pd == P[parent_entity] IN
    IF pd.kind = "shared" /\ ~HasOwnValue(d) THEN SharedIndex(pd.index, TRUE) ELSE d

\* The first rule of matched_rules that declares property p, if any.
RECURSIVE FirstDeclaring(_, _)
FirstDeclaring(p, matched_rules) ==
    IF matched_rules = <<>> THEN None
    ELSE IF IsSome(SharedData(p, Head(matched_rules))) THEN Some(Head(matched_rules))
    ELSE FirstDeclaring(p, Tail(matched_rules))

\* StyleSet::link: the index of `entity` after linking it to matched_rules.
link(p, d, matched_rules) ==
    IF d.kind = "inline" /\ ~d.inherited THEN d
    ELSE LET r == FirstDeclaring(p, matched_rules) IN
         IF IsSome(r) THEN SharedIndex(Unwrap(r), FALSE)
         ELSE IF d.kind = "shared" /\ ~d.inherited THEN NullIndex
         ELSE d

\* The inline properties that push a redraw, with font-size among them (a mutant).
InlineRedrawProps_with_font_size == {"disabled", "caret_color", "font_size"}

\* The inline properties with background-color among them (a mutant).
InlineRedrawProps_with_background == {"disabled", "caret_color", "background_color"}

\* The properties the two inheritance systems copy down, by what a change marks.
InlineRedrawProps == {"disabled", "caret_color"}
InlineTextProps == {"font_color", "font_size"}
SharedTextProps == {"font_color", "font_size"}
SharedRedrawProps == {"caret_color"}

\* Every property of ps inherits for `entity` (all of them: `|` does not short-circuit).
RECURSIVE InheritAll(_, _, _, _, _)
InheritAll(P, ps, entity, parent_entity, inline) ==
    IF ps = {} THEN P
    ELSE LET p == CHOOSE q \in ps : TRUE IN
         InheritAll([P EXCEPT ![p][entity] =
                        IF inline THEN inherit_inline(P[p], entity, parent_entity)
                        ELSE inherit_shared(P[p], entity, parent_entity)],
                    ps \ {p}, entity, parent_entity, inline)

AnyChanged(P, Q, ps, entity) == \E p \in ps : P[p][entity] # Q[p][entity]

\* One iteration of the loop of inline_inheritance_system (inline = TRUE) or of
\* shared_inheritance_system, on st = [props, redraw, text].
InheritStep(st, entity, inline) ==
    LET lp == get_layout_parent(entity) IN
    IF ~IsSome(lp) THEN st
    ELSE
      LET redrawPs == IF inline THEN InlineRedrawProps ELSE SharedRedrawProps
          textPs == IF inline THEN InlineTextProps ELSE SharedTextProps
          Q == InheritAll(st.props, redrawPs \cup textPs, entity, Unwrap(lp), inline)
      IN [props |-> Q,
          redraw |-> IF AnyChanged(st.props, Q, redrawPs, entity)
                     THEN Append(st.redraw, entity) ELSE st.redraw,
          text |-> IF AnyChanged(st.props, Q, textPs, entity)
                   THEN st.text \cup {entity} ELSE st.text]

RECURSIVE InheritLoop(_, _, _)
InheritLoop(st, entities, inline) ==
    IF entities = <<>> THEN st
    ELSE LET next == InheritStep(st, Head(entities), inline) IN
         \* the test is always true: it has the step evaluated before the next one
         IF DOMAIN next.props = PropNames
         THEN InheritLoop(next, Tail(entities), inline)
         ELSE st

\* inline_inheritance_system over the tree from the leaves up (a mutant).
inline_inheritance_system_leaves_first(st) == InheritLoop(st, reverse(TreeIterator), TRUE)

\* inline_inheritance_system(cx, &mut redraw_entities)
inline_inheritance_system(st) == InheritLoop(st, TreeIterator, TRUE)

\* shared_inheritance_system(cx, &mut redraw_entities)
shared_inheritance_system(st) == InheritLoop(st, TreeIterator, FALSE)

\* The properties link_style_data links, by the flags a change raises.
\* The layout-classified properties with background-color among them (a mutant).
RelayoutProps_with_background == {"display", "font_size", "background_color"}

\* The redraw-classified properties without the ones of layout and text (a mutant).
RedrawProps_of_colours == {"background_color", "caret_color"}

LinkedProps == PropNames \ {"disabled"}
RelayoutProps == {"display", "font_size"}
RedrawProps == LinkedProps
ReflowProps == {"font_size", "font_color"}

\* The nearest layout ancestor, whatever its display (a mutant).
FirstDisplayed_or_not(P, ancestors) ==
    IF ancestors = <<>> THEN None ELSE Some(Head(ancestors))

\* The nearest layout ancestor of entity whose display is not none.
RECURSIVE FirstDisplayed(_, _)
FirstDisplayed(P, ancestors) ==
    IF ancestors = <<>> THEN None
    ELSE IF GetIn(P, "display", Head(ancestors)) # Some("none")
         THEN Some(Head(ancestors))
         ELSE FirstDisplayed(P, Tail(ancestors))

\* Every property of ps is linked for `entity`.
RECURSIVE LinkAll(_, _, _, _)
LinkAll(P, ps, entity, matched_rules) ==
    IF ps = {} THEN P
    ELSE LET p == CHOOSE q \in ps : TRUE IN
         LinkAll([P EXCEPT ![p][entity] = link(p, @, matched_rules)],
                 ps \ {p}, entity, matched_rules)

\* link_style_data(style, tree, entity, redraw_entities, matched_rules), on
\* st = [props, redraw, text, relayout].
link_style_data(st, entity, matched_rules) ==
    LET Q == LinkAll(st.props, LinkedProps, entity, matched_rules)
        should_relayout == AnyChanged(st.props, Q, RelayoutProps, entity)
        should_redraw == AnyChanged(st.props, Q, RedrawProps, entity)
        should_reflow == AnyChanged(st.props, Q, ReflowProps, entity)
        displayed == FirstDisplayed(Q, LayoutAncestors(entity))
    IN [props |-> Q,
        relayout |-> st.relayout \/ should_relayout,
        redraw |-> IF should_redraw THEN Append(st.redraw, entity) ELSE st.redraw,
        text |-> IF should_reflow /\ IsSome(displayed)
                 THEN st.text \cup {Unwrap(displayed)} ELSE st.text]

\* ------------------------------------------------------------- matching

\* The last selector of the list that matches entity, if any (a mutant).
FirstMatching_from_the_end(selector_list, entity) ==
    LET hits == {k \in 1..Len(selector_list) : matches_selector(selector_list[k], entity)}
    IN IF hits = {} THEN None
       ELSE Some(selector_list[CHOOSE k \in hits : \A h \in hits : h <= k])

\* The first selector of the list that matches entity, if any.
RECURSIVE FirstMatching(_, _)
FirstMatching(selector_list, entity) ==
    IF selector_list = <<>> THEN None
    ELSE IF matches_selector(Head(selector_list), entity) THEN Some(Head(selector_list))
    ELSE FirstMatching(Tail(selector_list), entity)

\* The loop of compute_matched_rules: (rule, specificity) of every rule with a
\* matching selector, in the order of the rule set.
RECURSIVE MatchRules(_, _)
MatchRules(rs, entity) ==
    IF rs = <<>> THEN <<>>
    ELSE LET m == FirstMatching(Head(rs).selectors, entity) IN
         (IF IsSome(m) THEN << <<Head(rs).rule, specificity(Unwrap(m))>> >> ELSE <<>>)
         \o MatchRules(Tail(rs), entity)

\* Insert x into the list s, sorted by key, after every element with a key <= its own.
RECURSIVE InsertSorted(_, _)
InsertSorted(s, x) ==
    IF s = <<>> THEN <<x>>
    ELSE IF x[2] < Head(s)[2] THEN <<x>> \o s
    ELSE <<Head(s)>> \o InsertSorted(Tail(s), x)

\* sort_by_cached_key(|(_, s)| *s): a stable sort, ascending.
RECURSIVE sort_by_cached_key(_)
sort_by_cached_key(s) ==
    IF s = <<>> THEN <<>>
    ELSE InsertSorted(sort_by_cached_key(SubSeq(s, 1, Len(s) - 1)), s[Len(s)])

\* compute_matched_rules over a rule map without an order of its own: the order
\* of the list differs from one run of the pass to the next (a mutant).
compute_matched_rules_unordered(entity) ==
    IF last.fresh
    THEN sort_by_cached_key(MatchRules(rules, entity))
    ELSE reverse(sort_by_cached_key(MatchRules(rules, entity)))

\* compute_matched_rules without the final reverse (a mutant).
compute_matched_rules_unreversed(entity) ==
    sort_by_cached_key(MatchRules(rules, entity))

\* compute_matched_rules(cx, entity, &mut matched_rules)
compute_matched_rules(entity) ==
    reverse(sort_by_cached_key(MatchRules(rules, entity)))

\* The comparisons of has_same_selector, on what the two entities store.
SameSelector(element1, element2, id1, id2, classes1, classes2, flags1, flags2) ==
    /\ element1 = element2
    /\ id1 = id2
    /\ (IsSome(classes1) /\ IsSome(classes2)) =>
           (Unwrap(classes2) \subseteq Unwrap(classes1)
            /\ Unwrap(classes1) \subseteq Unwrap(classes2))
    /\ (IsSome(flags1) /\ IsSome(flags2)) => Unwrap(flags2) = Unwrap(flags1)

\* has_same_selector(cx, entity1, entity2)
has_same_selector(entity1, entity2) ==
    SameSelector(IF IsSome(views[entity1]) THEN Unwrap(views[entity1]) ELSE "",
                 IF IsSome(views[entity2]) THEN Unwrap(views[entity2]) ELSE "",
                 IF IsSome(ids[entity1]) THEN Unwrap(ids[entity1]) ELSE "",
                 IF IsSome(ids[entity2]) THEN Unwrap(ids[entity2]) ELSE "",
                 classes[entity1], classes[entity2],
                 pseudo_classes[entity1], pseudo_classes[entity2])

\* A selector has a Component::Nth of type Child, LastChild or OnlyChild.
HasNthComponent(sel) ==
    \E i \in 1..Len(sel) :
        /\ IsSome(sel[i].nth)
        /\ Unwrap(sel[i].nth).ty \in {"Child", "LastChild", "OnlyChild"}

\* The test of the cached rule list looking at the first selector of each rule
\* only (a mutant).
EntryHasNth_in_first_selector(entry_rules) ==
    \E i \in 1..Len(entry_rules) :
        \E j \in 1..Len(rules) :
            /\ rules[j].rule = entry_rules[i][1]
            /\ HasNthComponent(rules[j].selectors[1])

\* The cached rule list has a rule of the rule set with such a selector.
EntryHasNth(entry_rules) ==
    \E i \in 1..Len(entry_rules) :
        \E j \in 1..Len(rules) :
            /\ rules[j].rule = entry_rules[i][1]
            /\ \E k \in 1..Len(rules[j].selectors) : HasNthComponent(rules[j].selectors[k])

\* A cache loop that never finds an entry (a mutant).
CacheLookup_never(entries, entity) == None

\* The 'cache loop of style_system: the rules of the first entry whose entity has
\* the same selector and whose rules have no Nth component, if there is one.
RECURSIVE CacheLookup(_, _)
CacheLookup(entries, entity) ==
    IF entries = <<>> THEN None
    ELSE IF has_same_selector(Head(entries).entity, entity)
            /\ ~EntryHasNth(Head(entries).rules)
         THEN Some(Head(entries).rules)
         ELSE CacheLookup(Tail(entries), entity)

\* The first elements of a list of pairs.
RECURSIVE Firsts(_)
Firsts(s) == IF s = <<>> THEN <<>> ELSE <<Head(s)[1]>> \o Firsts(Tail(s))

\* ---------------------------------------------------------- style_system

\* Vec::with_capacity(50): the capacity the cache is created with.
CacheCapacity == 50

\* What a call of style_system has done so far (observation only).
NoPass ==
    [dirty |-> {}, matched |-> <<>>, computed |-> <<>>, cached |-> <<>>,
     phases |-> <<>>, inline_redraw |-> <<>>, max_cache |-> 0, repeat |-> FALSE]

\* The resolved value of every property on every entity, on the data indices P.
ResolvedIn(P) == [p \in PropNames |-> [e \in Entities |-> GetIn(P, p, e)]]

\* style_system with inline inheritance inside the test of the restyle set, so
\* that a call with an empty restyle set does nothing (a mutant).
style_system_begin_inside_test ==
    /\ pc = "idle"
    /\ \E st \in {IF restyle # {}
                  THEN inline_inheritance_system(
                           [props |-> props, redraw |-> <<>>, text |-> text_update])
                  ELSE [props |-> props, redraw |-> <<>>, text |-> text_update]} :
          /\ props' = st.props
          /\ text_update' = st.text
          /\ IF restyle # {}
             THEN /\ pc' = "matching"
                  /\ iterator' = TreeBreadthIterator
                  /\ redraw_entities' = st.redraw
                  /\ pass' = [NoPass EXCEPT !.dirty = restyle,
                                            !.phases = <<"inline", "matching">>,
                                            !.inline_redraw = st.redraw,
                                            !.repeat = last.fresh /\ restyle = last.dirty]
                  /\ last' = last
             ELSE /\ pc' = "presented"
                  /\ iterator' = <<>>
                  /\ redraw_entities' = <<>>
                  /\ pass' = NoPass
                  /\ last' = [dirty |-> {}, matched |-> <<>>,
                              resolved |-> ResolvedIn(st.props), fresh |-> TRUE]
    /\ parent' = None
    /\ cache' = <<>>
    /\ UNCHANGED <<tree, views, ids, classes, pseudo_classes, rules, inline_data,
                   restyle, relayout, redrawn, budget,
                   context_vars>>

\* style_system, from its entry to the test of the restyle set: inline inheritance
\* runs, and the Matching phase is entered unless the restyle set is empty.
style_system_begin ==
    /\ pc = "idle"
    /\ \E st \in {inline_inheritance_system(
                      [props |-> props, redraw |-> <<>>, text |-> text_update])} :
          /\ props' = st.props
          /\ text_update' = st.text
          /\ IF restyle # {}
             THEN /\ pc' = "matching"
                  /\ iterator' = TreeBreadthIterator
                  /\ redraw_entities' = st.redraw
                  /\ pass' = [NoPass EXCEPT !.dirty = restyle,
                                            !.phases = <<"inline", "matching">>,
                                            !.inline_redraw = st.redraw,
                                            !.repeat = last.fresh /\ restyle = last.dirty]
                  /\ last' = last
             ELSE /\ pc' = "presented"
                  /\ iterator' = <<>>
                  /\ redraw_entities' = <<>>
                  /\ pass' = [NoPass EXCEPT !.phases = <<"inline">>,
                                            !.inline_redraw = st.redraw]
                  /\ last' = [dirty |-> {}, matched |-> <<>>,
                              resolved |-> ResolvedIn(st.props), fresh |-> TRUE]
    /\ parent' = None
    /\ cache' = <<>>
    /\ UNCHANGED <<tree, views, ids, classes, pseudo_classes, rules, inline_data,
                   restyle, relayout, redrawn, budget,
                   context_vars>>

\* The loop of the Matching phase putting a clean entity back at the end of the
\* entities to go through (a mutant).
style_system_skip_requeues ==
    /\ pc = "matching"
    /\ iterator # <<>>
    /\ Head(iterator) \notin restyle
    /\ iterator' = Append(Tail(iterator), Head(iterator))
    /\ UNCHANGED <<tree, views, ids, classes, pseudo_classes, rules, props, inline_data,
                   restyle, relayout, text_update, redrawn, pc, parent, cache,
                   redraw_entities, pass, last, budget,
                   context_vars>>

\* The loop of the Matching phase, for an entity that is not in the restyle set.
style_system_skip ==
    /\ pc = "matching"
    /\ iterator # <<>>
    /\ Head(iterator) \notin restyle
    /\ iterator' = Tail(iterator)
    /\ UNCHANGED <<tree, views, ids, classes, pseudo_classes, rules, props,
                   inline_data, restyle, relayout, text_update, redrawn, pc, parent,
                   cache, redraw_entities, pass, last, budget,
                   context_vars>>

\* The group test without the comparison of the layout parents (a mutant).
SameGroup_of_any_parent(entity) == ~is_first_child(entity) /\ ~is_last_child(entity)

\* The group test without the tests of first and last child (a mutant).
SameGroup_any_position(entity) == get_layout_parent(entity) = parent

\* The entity is in the parent group of the previous one: the cache is consulted.
SameGroup(entity) ==
    /\ get_layout_parent(entity) = parent
    /\ ~is_first_child(entity)
    /\ ~is_last_child(entity)

\* The matched rules of the entity: those of a cache entry, or computed.
MatchedRules(entity) ==
    LET found == IF SameGroup(entity) THEN CacheLookup(cache, entity) ELSE None
    IN IF IsSome(found)
       THEN [compute_match |-> FALSE, rules |-> Unwrap(found)]
       ELSE [compute_match |-> TRUE, rules |-> compute_matched_rules(entity)]

\* The cache with the entity pushed in every case (a mutant).
NextCache_always_pushed(entity, m) ==
    Append(IF get_layout_parent(entity) = parent /\ ~is_first_child(entity)
              /\ ~is_last_child(entity) THEN cache ELSE <<>>,
           [entity |-> entity, rules |-> m.rules])

\* The cache after the entity, never emptied (a mutant).
NextCache_never_emptied(entity, m) ==
    IF m.compute_match
    THEN Append(cache, [entity |-> entity, rules |-> m.rules])
    ELSE cache

\* The cache after the entity: emptied on a new parent group, and the entity pushed
\* when its rules were computed.
NextCache(entity, m) ==
    LET kept == IF SameGroup(entity) THEN cache ELSE <<>>
    IN IF m.compute_match
       THEN Append(kept, [entity |-> entity, rules |-> m.rules])
       ELSE kept

\* The linking of the entity with shared inheritance run right after it, inside
\* the loop (a mutant).
Linked_then_inherited(entity, m) ==
    LET st == [props |-> props, redraw |-> redraw_entities,
               text |-> text_update, relayout |-> relayout]
        l == IF m.rules # <<>> THEN link_style_data(st, entity, Firsts(m.rules)) ELSE st
        s == shared_inheritance_system(
                 [props |-> l.props, redraw |-> l.redraw, text |-> l.text])
    IN [props |-> s.props, redraw |-> s.redraw, text |-> s.text,
        relayout |-> l.relayout]

\* The linking of the entity, run with an empty rule list too (a mutant).
Linked_also_when_empty(entity, m) ==
    link_style_data([props |-> props, redraw |-> redraw_entities,
                     text |-> text_update, relayout |-> relayout],
                    entity, Firsts(m.rules))

\* The linking of the entity, skipped when no rule matched it.
Linked(entity, m) ==
    LET st == [props |-> props, redraw |-> redraw_entities,
               text |-> text_update, relayout |-> relayout]
    IN IF m.rules # <<>> THEN link_style_data(st, entity, Firsts(m.rules)) ELSE st

\* The loop of the Matching phase, for an entity of the restyle set: the cache
\* lookup or the full match, then the linking.
style_system_match ==
    /\ pc = "matching"
    /\ iterator # <<>>
    /\ Head(iterator) \in restyle
    /\ \E entity \in {Head(iterator)} :
       \E m \in {MatchedRules(entity)} :
       \E linked \in {Linked(entity, m)} :
       \E new_cache \in {NextCache(entity, m)} :
          /\ parent' = (IF SameGroup(entity) THEN parent ELSE get_layout_parent(entity))
          /\ cache' = new_cache
          /\ props' = linked.props
          /\ redraw_entities' = linked.redraw
          /\ text_update' = linked.text
          /\ relayout' = linked.relayout
          /\ pass' = [pass EXCEPT
                 !.matched = Append(@, <<entity, m.rules>>),
                 !.computed = IF m.compute_match THEN Append(@, entity) ELSE @,
                 !.cached = IF m.compute_match THEN @ ELSE Append(@, entity),
                 !.max_cache = IF Len(new_cache) > @ THEN Len(new_cache) ELSE @]
    /\ iterator' = Tail(iterator)
    /\ UNCHANGED <<tree, views, ids, classes, pseudo_classes, rules, inline_data,
                   restyle, redrawn, pc, last, budget,
                   context_vars>>

\* The restyle set losing only the entities the tree holds (a mutant).
restyle_clear_reached(set) == set \ Entities

\* cx.style.restyle.clear()
restyle_clear(set) == {}

\* style_system after the loop: the restyle set is cleared, shared inheritance
\* runs, and the redraw list is handed to cx.needs_redraw.
style_system_finish ==
    /\ pc = "matching"
    /\ iterator = <<>>
    /\ \E st \in {shared_inheritance_system(
                      [props |-> props, redraw |-> redraw_entities,
                       text |-> text_update])} :
          /\ props' = st.props
          /\ text_update' = st.text
          /\ redrawn' = redrawn \o st.redraw
          /\ pass' = [pass EXCEPT !.phases = Append(@, "shared")]
          /\ last' = [dirty |-> pass.dirty, matched |-> pass.matched,
                      resolved |-> ResolvedIn(st.props), fresh |-> TRUE]
    /\ restyle' = restyle_clear(restyle)
    /\ pc' = "presented"
    /\ parent' = None
    /\ cache' = <<>>
    /\ redraw_entities' = <<>>
    /\ UNCHANGED <<tree, views, ids, classes, pseudo_classes, rules, inline_data,
                   relayout, iterator, budget,
                   context_vars>>

\* -------------------------------------------------------------- mutations

\* The class names the mutations draw from, and the entities they mark or toggle.
ClassNames == {"card"}
MutationTargets == {1, 2}

\* The inline values the mutations set: entity, property, value.
InlineChoices ==
    {<<1, "background_color", "blue">>, <<0, "disabled", "true">>, <<1, "font_size", "12">>}

Mutated == budget + 1

\* Style::needs_restyle(entity)
needs_restyle(entity) ==
    /\ pc = "idle"
    /\ budget < MaxMutations
    /\ entity \notin restyle
    /\ restyle' = restyle \cup {entity}
    /\ last' = [last EXCEPT !.fresh = FALSE]
    /\ budget' = Mutated
    /\ UNCHANGED <<tree, views, ids, classes, pseudo_classes, rules, props,
                   inline_data, relayout, text_update, redrawn, pc, iterator, parent,
                   cache, redraw_entities, pass,
                   context_vars>>

\* The restyle set of the previous pass is marked again, nothing else changed.
needs_restyle_again ==
    /\ pc = "idle"
    /\ last.fresh
    /\ last.dirty # {}
    /\ restyle = {}
    /\ restyle' = last.dirty
    /\ UNCHANGED <<tree, views, ids, classes, pseudo_classes, rules, props,
                   inline_data, relayout, text_update, redrawn, pc, iterator, parent,
                   cache, redraw_entities, pass, last, budget,
                   context_vars>>

\* toggle_class(name) on entity: the class set changes and the entity is marked.
toggle_class(entity, name) ==
    /\ pc = "idle"
    /\ budget < MaxMutations
    /\ IsSome(classes[entity])
    /\ classes' = [classes EXCEPT ![entity] =
           Some(IF name \in Unwrap(@) THEN Unwrap(@) \ {name} ELSE Unwrap(@) \cup {name})]
    /\ restyle' = restyle \cup {entity}
    /\ last' = [last EXCEPT !.fresh = FALSE]
    /\ budget' = Mutated
    /\ UNCHANGED <<tree, views, ids, pseudo_classes, rules, props, inline_data,
                   relayout, text_update, redrawn, pc, iterator, parent, cache,
                   redraw_entities, pass,
                   context_vars>>

\* StyleSet::insert(entity, value): an inline value of property p.
insert(entity, p, value) ==
    /\ pc = "idle"
    /\ budget < MaxMutations
    /\ inline_data[p][entity] # Some(value)
    /\ inline_data' = [inline_data EXCEPT ![p][entity] = Some(value)]
    /\ props' = [props EXCEPT ![p][entity] = InlineIndex(entity, FALSE)]
    /\ last' = [last EXCEPT !.fresh = FALSE]
    /\ budget' = Mutated
    /\ UNCHANGED <<tree, views, ids, classes, pseudo_classes, rules, restyle,
                   relayout, text_update, redrawn, pc, iterator, parent, cache,
                   redraw_entities, pass,
                   context_vars>>

\* The consumers of a pass (layout, text shaping, the renderer) run after it and
\* clear what they consumed: the relayout flag, the text marks, the redraw list.
consume_outputs ==
    /\ pc = "presented"
    /\ pc' = "idle"
    /\ relayout' = FALSE
    /\ text_update' = {}
    /\ redrawn' = <<>>
    /\ pass' = NoPass
    /\ UNCHANGED <<tree, views, ids, classes, pseudo_classes, rules, props,
                   inline_data, restyle, iterator, parent, cache, redraw_entities,
                   last, budget,
                   context_vars>>

\* ---------------------------------------------------------- initial states

\* A tree from the parent of each entity 1..n (entity 0 is the root).
TreeOf(parents, ignored) ==
    [parent |-> [e \in 0..Len(parents) |-> IF e = 0 THEN None ELSE Some(parents[e])],
     ignored |-> ignored]

\* The root with four children.
FlatTree == TreeOf(<<0, 0, 0, 0>>, {})
\* The root, its child 1, and the children 2, 3 and 4 of 1.
DeepTree == TreeOf(<<0, 1, 1, 1>>, {})
\* The root with the children 1, 2 and 3; 3 is ignored and has the children 4, 5, 6.
WrapTree == TreeOf(<<0, 0, 0, 3, 3, 3>>, {3})

Simple(el, id, cls, pcs, nth) == <<Compound(el, id, cls, pcs, nth, "")>>

Rule(n, selectors, decls) == [rule |-> n, selectors |-> selectors, decls |-> decls]

\* .card { background-color: red }
CardRed == Rule(1, <<Simple("*", "", {"card"}, {}, None)>>, [background_color |-> "red"])
\* label { font-size: 20 }
LabelSize == Rule(2, <<Simple("label", "", {}, {}, None)>>, [font_size |-> "20"])
\* .big { background-color: blue; font-color: white }
BigBlue ==
    Rule(3, <<Simple("*", "", {"big"}, {}, None)>>,
         [background_color |-> "blue", font_color |-> "white"])
\* :nth-child(2) { background-color: red }
NthRed ==
    Rule(4, <<Simple("*", "", {}, {}, Nth("Child", 0, 2))>>, [background_color |-> "red"])
\* .card, :nth-child(3) { caret-color: green }
CardOrNth ==
    Rule(5, <<Simple("*", "", {"card"}, {}, None),
              Simple("*", "", {}, {}, Nth("Child", 0, 3))>>, [caret_color |-> "green"])
\* label, label.card { display: none }
LabelOrLabelCard ==
    Rule(6, <<Simple("label", "", {}, {}, None),
              Simple("label", "", {"card"}, {}, None)>>, [display |-> "none"])
\* :disabled { font-color: grey }
DisabledGrey ==
    Rule(7, <<Simple("*", "", {}, {"Disabled"}, None)>>, [font_color |-> "grey"])
\* .card + label { background-color: blue }
AfterCard ==
    Rule(8, << <<Compound("*", "", {"card"}, {}, None, ""),
                 Compound("label", "", {}, {}, None, "next")>> >>,
         [background_color |-> "blue"])
\* :empty { caret-color: green }
EmptyGreen ==
    Rule(9, << <<[Compound("*", "", {}, {}, None, "") EXCEPT !.empty = TRUE]>> >>,
         [caret_color |-> "green"])

RuleSets ==
    { <<CardRed>>, <<LabelSize>>, <<CardRed, BigBlue, LabelSize>>, <<NthRed>>,
      <<CardOrNth, LabelSize>>, <<LabelOrLabelCard, CardRed>>, <<DisabledGrey>>,
      <<AfterCard>>, <<EmptyGreen>>, <<LabelOrLabelCard, LabelSize>> }

Trees == {FlatTree, DeepTree, WrapTree}

\* The class sets the entities start with: none, or the entities of one of these
\* sets carry the classes of cs.
ClassChoices(es) ==
    {[e \in es |-> Some({})],
     [e \in es |-> Some(IF e = 1 THEN {"card"} ELSE {})],
     [e \in es |-> Some(IF e \in {2, 3} THEN {"card"} ELSE {})],
     [e \in es |-> Some(IF e # 0 THEN {"card", "big"} ELSE {})]}

\* ----------------------------------------------------------- core Context

\* Entity::null()
Null == -1

\* Context::new(): the root is the only entity; nothing is captured, the root is
\* hovered and focused; no theme, stylesheet or image is stored.
Context_new ==
    [entity_manager |-> [alive |-> {Root}, next |-> 1],
     tree |-> [e \in {Root} |-> None],
     current |-> Root,
     views |-> {},
     data |-> [e \in {} |-> 0],
     listeners |-> {},
     style |-> [entities |-> {Root}, rules |-> <<>>, shared_data |-> {},
                needs_restyle |-> FALSE, needs_relayout |-> FALSE,
                needs_redraw |-> FALSE],
     cache |-> {Root},
     enviroment |-> [include_default_theme |-> TRUE],
     captured |-> Null,
     hovered |-> Root,
     focused |-> Root,
     event_proxy |-> None,
     resource_manager |-> [themes |-> <<>>, stylesheets |-> <<>>,
                           images |-> [path \in {} |-> {}]]]

\* The paths of the file system, none of which holds a file at first.
Paths == {"a.css", "b.css"}
NoFiles == [path \in Paths |-> None]

\* No pure function was called, no operation was made on the Context.
NoProbe == [entity |-> Null, other |-> Null, pseudo |-> "", outcome |-> "",
            start |-> None, first |-> None]
NoObs == [op |-> "", entity |-> Null, delete_list |-> <<>>, destroyed |-> <<>>,
          result |-> "", made |-> 0, data |-> [e \in {} |-> 0]]

\* ------------------------------------------------------- winit Application

\* How many events the window system, the handlers and the idle callback emit.
MaxEvents == 2

\* How many windows the window system creates in all.
MaxWindows == 3

\* The window entities: the main window (the root) and a second window.
WindowEntities == {Root, 1}

\* The unit message `()`; a message is a kind and a serial number.
Unit == <<"()", 0>>

\* Event::new(message): the builder's defaults.
Event_new(message) ==
    [message |-> message, target |-> Null, origin |-> Null, propagation |-> "Up"]

\* Application::new and the state of the event loop before run(): no idle
\* callback, ControlFlow::Wait, no window; the Context's queue is empty.
\*   at: where the event loop is: "dispatch" (delivering events to the handlers),
\*       "flush", "update", "idle", "wake" (inside about_to_wait), "waiting",
\*       "exited"
\*   steps: what the current call of about_to_wait has done so far (observation)
\*   handled: the messages flush_events delivered (observation)
\*   made: the events emitted so far (observation)
\*   spawned: the ContextProxy of the thread made by Context::spawn, if any
\*   windows: the pairs (WindowId, entity of its WinState); window_ids: the pairs
\*       (entity, WindowId); ids: the WindowIds the window system has given out
\*   handlers: whether the views built by `content` open and close windows in
\*       their event handlers ("windowing") or not ("plain")
Application_new ==
    [on_idle |-> None,
     control_flow |-> "Wait",
     windows |-> {},
     window_ids |-> {},
     ids |-> 0,
     handlers |-> "plain",
     cx |-> [windows |-> {}, event_queue |-> <<>>, current |-> Root],
     event_loop |-> [user_events |-> <<>>, at |-> "dispatch"],
     steps |-> <<>>,
     handled |-> {},
     made |-> 0,
     spawned |-> None]

\* Application::should_poll
should_poll(a) == [a EXCEPT !.control_flow = "Poll"]

\* Application::on_idle(callback); the callback emits an event, or does not.
IdleCallbacks == {"quiet", "emits"}
on_idle(a, callback) == [a EXCEPT !.on_idle = Some(callback)]

\* The entities that have a backend window, and those that have a WindowId.
BackendEntities(a) == {w[2] : w \in a.windows}
IdEntities(a) == {w[1] : w \in a.window_ids}

\* Application::create_window: the window system creates a window with a new
\* WindowId; its WinState is inserted under the id, and the id under the entity.
create_window(a, window_entity) ==
    [a EXCEPT !.ids = @ + 1,
              !.windows = @ \cup {<<a.ids + 1, window_entity>>},
              !.window_ids = {w \in @ : w[1] # window_entity}
                                 \cup {<<window_entity, a.ids + 1>>}]

\* create_window for each of the entities, in their order.
RECURSIVE create_windows(_, _)
create_windows(a, entities) ==
    IF entities = {} THEN a
    ELSE LET e == CHOOSE x \in entities : \A y \in entities : x <= y
         IN create_windows(create_window(a, e), entities \ {e})

\* Application::resumed: the main window is created and entered in the
\* Context's windows, and a window is created for every other window entity of
\* the Context (`entities`: the windows `content` built).
resumed(a, entities) ==
    create_windows([create_window(a, Root) EXCEPT !.cx.windows = entities \cup {Root}],
                   entities \ {Root})

\* The backend windows kept although their entity left the Context (a mutant).
retain_windows_of_ids_only(a) ==
    [a EXCEPT !.window_ids = {w \in @ : w[1] \in a.cx.windows}]

\* self.windows.retain(..); self.window_ids.retain(..): what is not of a window
\* entity of the Context leaves both maps.
retain_windows(a) ==
    [a EXCEPT !.windows = {w \in @ : w[2] \in a.cx.windows},
              !.window_ids = {w \in @ : w[1] \in a.cx.windows}]

\* `if self.windows.len() != self.cx.0.windows.len()`: a window is created for
\* every window entity of the Context that has no WindowId.
create_missing_windows(a) ==
    IF Cardinality(a.windows) # Cardinality(a.cx.windows)
    THEN create_windows(a, a.cx.windows \ IdEntities(a))
    ELSE a

\* The windows of the Context after the handlers of one flush_events: plain
\* views leave them alone; windowing views, delivered an event, may have built
\* a window or removed one.
WindowChanges(a) ==
    IF a.handlers = "windowing" /\ a.cx.event_queue # <<>>
    THEN {a.cx.windows}
         \cup {a.cx.windows \ {e} : e \in a.cx.windows}
         \cup {a.cx.windows \cup {e} :
                   e \in {x \in WindowEntities :
                             a.ids + Cardinality(a.cx.windows \ BackendEntities(a))
                                 < MaxWindows}}
    ELSE {a.cx.windows}

\* The next event with a message of the given kind.
Emitted(a, kind) == Event_new(<<kind, a.made + 1>>)

\* Context::emit and its kin, and Context::send_event: the event enters the queue.
send_event(a, event) == [a EXCEPT !.cx.event_queue = Append(@, event)]

\* window_event, CloseRequested | Destroyed: the window leaves the Context's
\* windows and the backend windows, which are synced with the Context's.
window_event_close(entity) ==
    /\ app.event_loop.at = "dispatch"
    /\ \E window \in app.windows :
          /\ window[2] = entity
          /\ app' = retain_windows([app EXCEPT !.cx.windows = @ \ {entity},
                                               !.windows = @ \ {window}])
    /\ UNCHANGED <<style_vars, cx, files, probe, obs, draw>>

\* window_event, an input event of a window there is: it is emitted.
window_event_input(entity) ==
    /\ app.event_loop.at = "dispatch"
    /\ entity \in BackendEntities(app)
    /\ app.made < MaxEvents
    /\ app' = [send_event(app, Emitted(app, "input")) EXCEPT !.made = @ + 1]
    /\ UNCHANGED <<style_vars, cx, files, probe, obs, draw>>

\* user_event: the event sent through the event loop's proxy enters the queue.
user_event ==
    /\ app.event_loop.at = "dispatch"
    /\ app.event_loop.user_events # <<>>
    /\ app' = [send_event(app, Head(app.event_loop.user_events)) EXCEPT
           !.event_loop.user_events = Tail(@)]
    /\ UNCHANGED <<style_vars, cx, files, probe, obs, draw>>

\* about_to_wait, called when the pending events are delivered: with no window
\* the event loop is told to exit and nothing else is done.
about_to_wait ==
    /\ app.event_loop.at = "dispatch"
    /\ app.event_loop.user_events = <<>>
    /\ app' = [app EXCEPT
           !.event_loop.at = IF app.windows = {} THEN "exited" ELSE "flush",
           !.steps = <<>>]
    /\ UNCHANGED <<style_vars, cx, files, probe, obs, draw>>

\* One call of event_manager.flush_events in the `while`: the queued events are
\* delivered; a handler may emit another event; the call tells whether the queue
\* holds events again.
flush_events ==
    /\ app.event_loop.at = "flush"
    /\ \E follow_up \in BOOLEAN, windows \in WindowChanges(app) :
          /\ follow_up => (app.cx.event_queue # <<>> /\ app.made < MaxEvents)
          /\ app' = [app EXCEPT
                 !.handled = @ \cup {app.cx.event_queue[i].message :
                                         i \in 1..Len(app.cx.event_queue)},
                 !.cx.windows = windows,
                 !.cx.event_queue =
                     IF follow_up THEN <<Emitted(app, "handler")>> ELSE <<>>,
                 !.made = IF follow_up THEN @ + 1 ELSE @,
                 !.steps = Append(@, "flush_events"),
                 !.event_loop.at = IF follow_up THEN "flush" ELSE "update"]
    /\ UNCHANGED <<style_vars, cx, files, probe, obs, draw>>

\* process_style_updates, process_animations, process_visual_updates
process_updates ==
    /\ app.event_loop.at = "update"
    /\ app' = [app EXCEPT
           !.steps = @ \o <<"process_style_updates", "process_animations",
                            "process_visual_updates">>,
           !.event_loop.at = "idle"]
    /\ UNCHANGED <<style_vars, cx, files, probe, obs, draw>>

\* What the idle callback does to the Context.
run_callback(a, callback) ==
    IF callback = "emits" /\ a.made < MaxEvents
    THEN [send_event(a, Emitted(a, "idle")) EXCEPT !.made = @ + 1]
    ELSE a

\* `if let Some(idle_callback) = &self.on_idle`: the callback is called with the
\* root as the current entity.
idle_callback ==
    /\ app.event_loop.at = "idle"
    /\ app' = [(IF IsSome(app.on_idle)
                THEN run_callback([app EXCEPT !.cx.current = Root,
                                              !.steps = Append(@, "idle_callback")],
                                  Unwrap(app.on_idle))
                ELSE app)
               EXCEPT !.event_loop.at = "wake"]
    /\ UNCHANGED <<style_vars, cx, files, probe, obs, draw>>

\* The user events of the loop without a wake-up event (a mutant).
wake_up_never(user_events, event_queue) == user_events

\* `if self.cx.has_queued_events()`: an event with the unit message is sent to
\* the event loop.
wake_up(user_events, event_queue) ==
    IF event_queue # <<>> THEN Append(user_events, Event_new(Unit)) ELSE user_events

\* The rest of about_to_wait: the wake-up event, the control flow, the windows
\* synced with the Context's, and the exit when no window is left.
about_to_wait_end ==
    /\ app.event_loop.at = "wake"
    /\ \E a \in {create_missing_windows(retain_windows(app))} :
          app' = [a EXCEPT
              !.event_loop.user_events = wake_up(@, app.cx.event_queue),
              !.event_loop.at = IF a.windows = {} THEN "exited" ELSE "waiting"]
    /\ UNCHANGED <<style_vars, cx, files, probe, obs, draw>>

\* The event loop stops waiting: it polls, or a user event was sent to it.
new_events ==
    /\ app.event_loop.at = "waiting"
    /\ app.control_flow = "Poll" \/ app.event_loop.user_events # <<>>
    /\ app' = [app EXCEPT !.event_loop.at = "dispatch"]
    /\ UNCHANGED <<style_vars, cx, files, probe, obs, draw>>

\* The event loop stops waiting: the window system has an event.
new_events_of_window ==
    /\ app.event_loop.at = "waiting"
    /\ app' = [app EXCEPT !.event_loop.at = "dispatch"]
    /\ UNCHANGED <<style_vars, cx, files, probe, obs, draw>>

\* ------------------------------------------------------------ DrawContext

\* The values are the integers from -MaxValue to MaxValue; a call is given a
\* value or the result of the call before, MaxCalls calls in a row.
MaxValue == 2
MaxCalls == 2

\* The frames the stack has room for.
StackFrames == 3

\* A rational number: numerator and positive denominator, in lowest terms. The
\* f32 values of the model are small dyadic rationals, whose products are exact.
RECURSIVE Gcd(_, _)
Gcd(a, b) == IF b = 0 THEN a ELSE Gcd(b, a % b)
Abs(n) == IF n < 0 THEN -n ELSE n
Rat(n, d) == LET g == Gcd(Abs(n), d) IN <<n \div g, d \div g>>
Times32(a, b) == Rat(a[1] * b[1], a[2] * b[2])

\* style.dpi_factor: 1 and the factors of scaled displays.
DpiFactors == {Rat(1, 1), Rat(5, 4), Rat(3, 2), Rat(2, 1), Rat(1, 2)}
Values == {Rat(n, 1) : n \in -MaxValue..MaxValue}

\* DrawContext::logical_to_physical
logical_to_physical(dpi_factor, logical) == Times32(logical, dpi_factor)

\* DrawContext::physical_to_logical
physical_to_logical(dpi_factor, physical) == Times32(physical, dpi_factor)

\* No call was made on the draw context.
\*   logical: the value given to the first call; value: the last result
\*   calls: the conversions called, in order
\*   frames: the calls of has_pseudo_class on the stack
\*   outcome: "" or how the thread ended
\*   models: the types of the models in the model store of each entity
\*   by, type, found: the data::<T>() called last ("Context" or "DrawContext"),
\*       its T, and what it returned
NoCall == [dpi_factor |-> Rat(1, 1), logical |-> Rat(0, 1), value |-> Rat(0, 1),
           calls |-> <<>>, frames |-> 0, entity |-> Null, cls |-> "", outcome |-> "",
           models |-> [e \in {} |-> {}], by |-> "", type |-> "", found |-> None]

\* A conversion is called on the value at hand.
call_logical_to_physical ==
    /\ draw.frames = 0
    /\ Len(draw.calls) < MaxCalls
    /\ draw' = [draw EXCEPT
           !.value = logical_to_physical(draw.dpi_factor, @),
           !.calls = Append(@, "logical_to_physical")]
    /\ UNCHANGED <<style_vars, cx, files, probe, obs, app>>

call_physical_to_logical ==
    /\ draw.frames = 0
    /\ Len(draw.calls) < MaxCalls
    /\ draw' = [draw EXCEPT
           !.value = physical_to_logical(draw.dpi_factor, @),
           !.calls = Append(@, "physical_to_logical")]
    /\ UNCHANGED <<style_vars, cx, files, probe, obs, app>>

\* DrawContext::has_pseudo_class is called: its frame is pushed.
has_pseudo_class(entity, cls) ==
    /\ draw.frames = 0
    /\ draw.calls = <<>>
    /\ draw' = [draw EXCEPT !.frames = 1, !.entity = entity, !.cls = cls]
    /\ UNCHANGED <<style_vars, cx, files, probe, obs, app>>

\* The body of has_pseudo_class, `self.has_pseudo_class(entity, cls)`: the
\* method of DrawContext is called again with the same arguments. The body has
\* no other statement: a frame returns only what the frame above it returned.
has_pseudo_class_body ==
    /\ draw.frames \in 1..(StackFrames - 1)
    /\ draw.outcome = ""
    /\ draw' = [draw EXCEPT !.frames = @ + 1]
    /\ UNCHANGED <<style_vars, cx, files, probe, obs, app>>

\* The call in the body finds no room on the stack: the thread is aborted.
stack_overflow ==
    /\ draw.frames = StackFrames
    /\ draw.outcome = ""
    /\ draw' = [draw EXCEPT !.outcome = "stack overflow"]
    /\ UNCHANGED <<style_vars, cx, files, probe, obs, app>>

\* The types data::<T>() is asked for: a model, the view struct of the labels,
\* and the unit type of the static model.
DataTypes == {"AppData", "label", "()"}

\* entity.parent_iter(&tree): the entity, then its ancestors, nearest first.
RECURSIVE parent_iter(_)
parent_iter(entity) ==
    IF IsSome(get_parent(entity))
    THEN <<entity>> \o parent_iter(Unwrap(get_parent(entity)))
    ELSE <<entity>>

\* What data::<T>() returns: a reference to the static model, to the model of
\* type T in the store of an entity, or to the view of an entity.
StaticModel == <<Null, "static">>
ModelOf(entity) == <<entity, "model">>
ViewOf(entity) == <<entity, "view">>

\* DrawContext::data::<T>(): the unit type gives the static model; else the
\* entities of parent_iter are searched, the model store of each before its view.
RECURSIVE DrawContext_search(_, _, _)
DrawContext_search(path, models, T) ==
    IF path = <<>> THEN None
    ELSE IF T \in models[Head(path)] THEN Some(ModelOf(Head(path)))
    ELSE IF views[Head(path)] = Some(T) THEN Some(ViewOf(Head(path)))
    ELSE DrawContext_search(Tail(path), models, T)

DrawContext_data(models, current, T) ==
    IF T = "()" THEN Some(StaticModel)
    ELSE DrawContext_search(parent_iter(current), models, T)

\* Context::data::<T>(): the unit type gives the static model; else the model
\* stores of the entities of parent_iter are searched.
RECURSIVE Context_search(_, _, _)
Context_search(path, models, T) ==
    IF path = <<>> THEN None
    ELSE IF T \in models[Head(path)] THEN Some(ModelOf(Head(path)))
    ELSE Context_search(Tail(path), models, T)

Context_data(models, current, T) ==
    IF T = "()" THEN Some(StaticModel)
    ELSE Context_search(parent_iter(current), models, T)

\* data::<T>() is called on the draw context whose current entity is `current`.
call_DrawContext_data(current, T) ==
    /\ draw' = [draw EXCEPT !.by = "DrawContext", !.entity = current, !.type = T,
                            !.found = DrawContext_data(draw.models, current, T)]
    /\ UNCHANGED <<style_vars, cx, files, probe, obs, app>>

\* data::<T>() is called on the Context whose current entity is `current`.
call_Context_data(current, T) ==
    /\ draw' = [draw EXCEPT !.by = "Context", !.entity = current, !.type = T,
                            !.found = Context_data(draw.models, current, T)]
    /\ UNCHANGED <<style_vars, cx, files, probe, obs, app>>

\* The Context as constructed, untouched by the style system's passes.
ConstructedContext ==
    /\ cx = Context_new
    /\ files = NoFiles
    /\ probe = NoProbe
    /\ obs = NoObs
    /\ app = Application_new
    /\ draw = NoCall

\* The entities the IdManager hands out after the root, in this order.
MaxEntity == 2

\* How many bindings, models, listeners, image observers and mouse events a run makes.
MaxDecorations == 3
CxEntities == 0..MaxEntity

\* The children of p in the Context's tree t (entity -> Option<parent>), in the
\* order they were added.
CxChildren(t, p) ==
    SelectSeq([i \in 1..(MaxEntity + 1) |-> i - 1],
              LAMBDA e : e \in DOMAIN t /\ t[e] = Some(p))

\* entity.branch_iter(&tree): the entity, then its descendants, depth first.
RECURSIVE branch_iter(_, _)
RECURSIVE BranchesOf(_, _)
branch_iter(t, entity) == <<entity>> \o BranchesOf(t, CxChildren(t, entity))
BranchesOf(t, entities) ==
    IF entities = <<>> THEN <<>>
    ELSE branch_iter(t, Head(entities)) \o BranchesOf(t, Tail(entities))

\* A view is built (View::build): the IdManager creates an entity, it is added to
\* the tree under cx.current, to the cache, the style store and the views, and it
\* is cx.current while its body is built.
build ==
    /\ cx.entity_manager.next <= MaxEntity
    /\ cx.current \in DOMAIN cx.tree
    /\ \E id \in {cx.entity_manager.next} :
          cx' = [cx EXCEPT
                   !.entity_manager = [alive |-> @.alive \cup {id}, next |-> id + 1],
                   !.tree = [e \in DOMAIN @ \cup {id} |->
                                IF e = id THEN Some(cx.current) ELSE @[e]],
                   !.cache = @ \cup {id},
                   !.style.entities = @ \cup {id},
                   !.views = @ \cup {id},
                   !.current = id]
    /\ obs' = [NoObs EXCEPT !.made = obs.made, !.op = "build", !.entity = cx.entity_manager.next]
    /\ UNCHANGED <<style_vars, shell_vars, files, probe>>

\* The body of the current view is built: cx.current is its parent again.
leave ==
    /\ cx.current \in DOMAIN cx.tree
    /\ IsSome(cx.tree[cx.current])
    /\ cx' = [cx EXCEPT !.current = Unwrap(cx.tree[cx.current])]
    /\ obs' = [NoObs EXCEPT !.made = obs.made, !.op = "leave"]
    /\ UNCHANGED <<style_vars, shell_vars, files, probe>>

\* A model is built on cx.current (Model::build): the entity gets a model store.
NoLenses == [lenses_dedup |-> [id \in {} |-> {}], lenses_dup |-> <<>>]
build_model ==
    /\ obs.made < MaxDecorations
    /\ cx.current \in DOMAIN cx.tree
    /\ cx.current \notin DOMAIN cx.data
    /\ cx' = [cx EXCEPT !.data = [e \in DOMAIN @ \cup {cx.current} |->
                                     IF e = cx.current THEN NoLenses ELSE @[e]]]
    /\ obs' = [NoObs EXCEPT !.made = obs.made + 1, !.op = "build_model", !.entity = cx.current]
    /\ UNCHANGED <<style_vars, shell_vars, files, probe>>

\* The lenses a binding names.
LensIds == {"a"}

\* A binding is built on cx.current (Binding::new): the entity observes the lens
\* in the store of a model: the lens of the map lenses_dedup, or a new one of the
\* list lenses_dup.
bind(model, lens, dedup) ==
    /\ obs.made < MaxDecorations
    /\ cx.current \in DOMAIN cx.tree
    /\ model \in DOMAIN cx.data
    /\ IF dedup
       THEN /\ lens \in DOMAIN cx.data[model].lenses_dedup
                   => cx.current \notin cx.data[model].lenses_dedup[lens]
            /\ cx' = [cx EXCEPT !.data[model].lenses_dedup =
                        [id \in DOMAIN @ \cup {lens} |->
                            IF id \in DOMAIN @ /\ id # lens THEN @[id]
                            ELSE IF id \in DOMAIN @ THEN @[id] \cup {cx.current}
                            ELSE {cx.current}]]
       ELSE cx' = [cx EXCEPT !.data[model].lenses_dup =
                        Append(@, [lens |-> lens, observers |-> {cx.current}])]
    /\ obs' = [NoObs EXCEPT !.made = obs.made + 1, !.op = "bind", !.entity = cx.current]
    /\ UNCHANGED <<style_vars, shell_vars, files, probe>>

\* Context::add_listener: a listener is stored for cx.current.
add_listener ==
    /\ obs.made < MaxDecorations
    /\ cx.current \in DOMAIN cx.tree
    /\ cx.current \notin cx.listeners
    /\ cx' = [cx EXCEPT !.listeners = @ \cup {cx.current}]
    /\ obs' = [NoObs EXCEPT !.made = obs.made + 1, !.op = "add_listener", !.entity = cx.current]
    /\ UNCHANGED <<style_vars, shell_vars, files, probe>>

\* The paths of the images.
ImagePaths == {"icon.png"}

\* Context::add_image_observer: get_image_internal stores the broken image under
\* a path that is not loaded, then the observer is added to the image's set.
add_image_observer(path, observer) ==
    /\ obs.made < MaxDecorations
    /\ observer \in DOMAIN cx.tree
    /\ path \in DOMAIN cx.resource_manager.images
           => observer \notin cx.resource_manager.images[path]
    /\ cx' = [cx EXCEPT !.resource_manager.images =
                 [q \in DOMAIN @ \cup {path} |->
                     IF q # path THEN @[q]
                     ELSE IF q \in DOMAIN @ THEN @[q] \cup {observer}
                     ELSE {observer}]]
    /\ obs' = [NoObs EXCEPT !.made = obs.made + 1, !.op = "add_image_observer", !.entity = observer]
    /\ UNCHANGED <<style_vars, shell_vars, files, probe>>

\* The mouse moves over an entity: it is the hovered one.
hover(entity) ==
    /\ obs.made < MaxDecorations
    /\ entity \in DOMAIN cx.tree
    /\ cx.hovered # entity
    /\ cx' = [cx EXCEPT !.hovered = entity]
    /\ obs' = [NoObs EXCEPT !.made = obs.made + 1, !.op = "hover", !.entity = entity]
    /\ UNCHANGED <<style_vars, shell_vars, files, probe>>

\* The mouse is pressed: the hovered entity is focused and captures the mouse.
press ==
    /\ obs.made < MaxDecorations
    /\ cx.hovered \in DOMAIN cx.tree
    /\ cx.captured # cx.hovered
    /\ cx' = [cx EXCEPT !.captured = cx.hovered, !.focused = cx.hovered]
    /\ obs' = [NoObs EXCEPT !.made = obs.made + 1, !.op = "press", !.entity = cx.hovered]
    /\ UNCHANGED <<style_vars, shell_vars, files, probe>>

\* The body of the first loop of Context::remove without the two retain calls:
\* emptied lenses stay in the store (a mutant).
prune_observer_without_retain(store, entity) ==
    [lenses_dedup |-> [id \in DOMAIN store.lenses_dedup |->
                          store.lenses_dedup[id] \ {entity}],
     lenses_dup |-> [i \in 1..Len(store.lenses_dup) |->
                        [store.lenses_dup[i] EXCEPT !.observers = @ \ {entity}]]]

\* The body of the first loop of Context::remove, on one model store: the entity
\* is removed from the observers of every lens, and the lenses left without
\* observers are dropped.
prune_observer(store, entity) ==
    LET dedup == [id \in DOMAIN store.lenses_dedup |->
                     store.lenses_dedup[id] \ {entity}]
        dup == [i \in 1..Len(store.lenses_dup) |->
                   [store.lenses_dup[i] EXCEPT !.observers = @ \ {entity}]]
    IN [lenses_dedup |-> [id \in {i \in DOMAIN dedup : dedup[i] # {}} |-> dedup[id]],
        lenses_dup |-> SelectSeq(dup, LAMBDA l : l.observers # {})]

\* One iteration of the loop of Context::remove: the entity leaves the lenses,
\* the tree, the cache, the style store, the model data, the views and the
\* IdManager, and the capture is released if it held it.
remove_entity(c, entity) ==
    LET pruned == [m \in DOMAIN c.data |-> prune_observer(c.data[m], entity)] IN
    [c EXCEPT
       !.data = [m \in DOMAIN pruned \ {entity} |-> pruned[m]],
       !.tree = [e \in DOMAIN @ \ {entity} |-> @[e]],
       !.cache = @ \ {entity},
       !.style.entities = @ \ {entity},
       !.views = @ \ {entity},
       !.entity_manager.alive = @ \ {entity},
       !.captured = IF @ = entity THEN Null ELSE @]

RECURSIVE remove_each(_, _)
remove_each(c, entities) ==
    IF entities = <<>> THEN c
    ELSE remove_each(remove_entity(c, Head(entities)), Tail(entities))

\* Context::remove in the order of the delete list, ancestors first (a mutant).
remove_order_not_reversed(delete_list) == delete_list

\* The order in which Context::remove goes through the delete list.
remove_order(delete_list) == reverse(delete_list)

\* Context::remove(entity), for an entity of the tree other than the root.
remove(entity) ==
    /\ entity \in DOMAIN cx.tree
    /\ entity # Root
    /\ \E delete_list \in {branch_iter(cx.tree, entity)} :
          /\ cx' = remove_each(
                       [cx EXCEPT !.style.needs_restyle = TRUE,
                                  !.style.needs_relayout = TRUE,
                                  !.style.needs_redraw = TRUE],
                       remove_order(delete_list))
          /\ obs' = [NoObs EXCEPT !.made = obs.made, !.op = "remove", !.entity = entity,
                                  !.delete_list = delete_list,
                                  !.data = cx.data,
                                  !.destroyed = remove_order(delete_list)]
    /\ UNCHANGED <<style_vars, shell_vars, files, probe>>

\* ----------------------------------------------------------- ContextProxy

\* BackendContext::set_event_proxy with a WinitEventProxy (Application::new).
set_event_proxy(c) == [c EXCEPT !.event_proxy = Some("WinitEventProxy")]

\* Context::spawn: the thread gets a ContextProxy with the current entity and a
\* clone of the event proxy, if there is one.
spawn ==
    /\ ~IsSome(app.spawned)
    /\ app' = [app EXCEPT
           !.spawned = Some([current |-> cx.current, event_proxy |-> cx.event_proxy])]
    /\ obs' = [NoObs EXCEPT !.made = obs.made, !.op = "spawn"]
    /\ UNCHANGED <<style_vars, cx, files, probe, draw>>

\* The event of ContextProxy::emit_to with the origin set to the target (a mutant).
emit_to_event_from_target(cxp, target, message) ==
    [message |-> message, target |-> target, origin |-> target,
     propagation |-> "Direct"]

\* The event ContextProxy::emit builds.
emit_event(cxp, message) ==
    [message |-> message, target |-> cxp.current, origin |-> cxp.current,
     propagation |-> "Up"]

\* The event ContextProxy::emit_to builds.
emit_to_event(cxp, target, message) ==
    [message |-> message, target |-> target, origin |-> cxp.current,
     propagation |-> "Direct"]

\* WinitEventProxy::send: EventLoopProxy::send_event fails when the event loop
\* is closed, and the error is mapped to ().
WinitEventProxy_send(a, event) ==
    IF a.event_loop.at = "exited"
    THEN [result |-> "Err(())", app |-> a]
    ELSE [result |-> "Ok(())",
          app |-> [a EXCEPT !.event_loop.user_events = Append(@, event)]]

\* `if let Some(proxy) = &self.event_proxy { proxy.send(event).map_err(..) }
\*  else { Err(ProxyEmitError::Unsupported) }`
proxy_send(a, event) ==
    IF IsSome(Unwrap(a.spawned).event_proxy)
    THEN LET sent == WinitEventProxy_send(a, event)
         IN  [sent EXCEPT !.result = IF @ = "Ok(())" THEN @
                                     ELSE "Err(EventLoopClosed)"]
    ELSE [result |-> "Err(Unsupported)", app |-> a]

\* How many events the spawned thread emits.
MaxEmits == 1

\* ContextProxy::emit(message), called by the spawned thread.
ContextProxy_emit ==
    /\ IsSome(app.spawned)
    /\ obs.made < MaxEmits
    /\ \E sent \in {proxy_send(app, emit_event(Unwrap(app.spawned),
                                               <<"proxy", obs.made + 1>>))} :
          /\ app' = sent.app
          /\ obs' = [NoObs EXCEPT !.made = obs.made + 1, !.op = "emit",
                                  !.entity = Unwrap(app.spawned).current,
                                  !.result = sent.result]
    /\ UNCHANGED <<style_vars, cx, files, probe, draw>>

\* ContextProxy::emit_to(target, message), called by the spawned thread.
ContextProxy_emit_to(target) ==
    /\ IsSome(app.spawned)
    /\ obs.made < MaxEmits
    /\ \E sent \in {proxy_send(app, emit_to_event(Unwrap(app.spawned), target,
                                                  <<"proxy", obs.made + 1>>))} :
          /\ app' = sent.app
          /\ obs' = [NoObs EXCEPT !.made = obs.made + 1, !.op = "emit_to",
                                  !.entity = target, !.result = sent.result]
    /\ UNCHANGED <<style_vars, cx, files, probe, draw>>

\* ------------------------------------------------- themes and stylesheets

\* A style text is the sequence of the rules it declares. The default theme, the
\* themes the application adds, and what the stylesheet files can hold.
DEFAULT_THEME == <<"default">>
UserThemes == {<<"dark">>}
FileTexts == {<<"card">>, <<"card", "label">>}

\* How many themes and stylesheets the application stores.
MaxStyleSources == 2

\* The program runs: no expect() has panicked.
Running == obs.result # "panic"

\* The file system changes under the program: a file is written, or deleted.
write_file(path, text) ==
    /\ Running
    /\ files[path] # Some(text)
    /\ files' = [files EXCEPT ![path] = Some(text)]
    /\ obs' = [NoObs EXCEPT !.op = "write_file"]
    /\ UNCHANGED <<style_vars, shell_vars, cx, probe>>

delete_file(path) ==
    /\ Running
    /\ IsSome(files[path])
    /\ files' = [files EXCEPT ![path] = None]
    /\ obs' = [NoObs EXCEPT !.op = "delete_file"]
    /\ UNCHANGED <<style_vars, shell_vars, cx, probe>>

\* Style::parse_theme: the rules of the text are added to the rule set, and their
\* declarations to the shared data of the style properties.
parse_theme(style, text) ==
    [style EXCEPT !.rules = @ \o text,
                  !.shared_data = @ \cup {text[i] : i \in 1..Len(text)}]

\* reload_styles without the three calls that clear the style store (a mutant).
clear_rules_skipped(style) == style

\* style.remove_rules(); style.rules.clear(); style.remove_all()
clear_rules(style) == [style EXCEPT !.rules = <<>>, !.shared_data = {}]

\* The loop of reload_styles over the stored themes: the texts are concatenated,
\* the first one left out when the environment excludes the default theme.
RECURSIVE ThemesFrom(_, _, _)
ThemesFrom(themes, index, include_default_theme) ==
    IF index > Len(themes) THEN <<>>
    ELSE (IF ~include_default_theme /\ index = 1 THEN <<>> ELSE themes[index])
             \o ThemesFrom(themes, index + 1, include_default_theme)

\* The loop of reload_styles over the stored stylesheets: each file is read and
\* its text concatenated; the first file that cannot be read ends the loop (`?`).
RECURSIVE StylesheetsFrom(_, _)
StylesheetsFrom(stylesheets, index) ==
    IF index > Len(stylesheets) THEN [ok |-> TRUE, text |-> <<>>]
    ELSE IF ~IsSome(files[stylesheets[index]]) THEN [ok |-> FALSE, text |-> <<>>]
    ELSE LET rest == StylesheetsFrom(stylesheets, index + 1) IN
         [ok |-> rest.ok, text |-> Unwrap(files[stylesheets[index]]) \o rest.text]

\* Context::reload_styles on the Context c: the Context it leaves and its result.
reload_styles_of(c) ==
    IF c.resource_manager.themes = <<>> /\ c.resource_manager.stylesheets = <<>>
    THEN [cx |-> c, result |-> "Ok"]
    ELSE
      LET cleared == [c EXCEPT !.style = clear_rules(@)]
          themes == ThemesFrom(c.resource_manager.themes, 1,
                               c.enviroment.include_default_theme)
          sheets == StylesheetsFrom(c.resource_manager.stylesheets, 1)
      IN IF ~sheets.ok THEN [cx |-> cleared, result |-> "Err"]
         ELSE [cx |-> [cleared EXCEPT
                          !.style = [parse_theme(@, themes \o sheets.text)
                                        EXCEPT !.needs_restyle = TRUE]],
               result |-> "Ok"]

\* Context::reload_styles
reload_styles ==
    /\ Running
    /\ \E r \in {reload_styles_of(cx)} :
          /\ cx' = r.cx
          /\ obs' = [NoObs EXCEPT !.op = "reload_styles", !.result = r.result]
    /\ UNCHANGED <<style_vars, shell_vars, files, probe>>

\* Context::add_theme: the theme is stored and the styles reloaded; a failed
\* reload panics (expect).
add_theme_of(c, theme) ==
    LET r == reload_styles_of([c EXCEPT !.resource_manager.themes = Append(@, theme)])
    IN [cx |-> r.cx, result |-> IF r.result = "Ok" THEN "Ok" ELSE "panic"]

StyleSources(c) == Len(c.resource_manager.themes) + Len(c.resource_manager.stylesheets)

add_theme(theme) ==
    /\ Running
    /\ StyleSources(cx) < MaxStyleSources
    /\ \E r \in {add_theme_of(cx, theme)} :
          /\ cx' = r.cx
          /\ obs' = [NoObs EXCEPT !.op = "add_theme", !.result = r.result]
    /\ UNCHANGED <<style_vars, shell_vars, files, probe>>

\* Context::remove_user_themes: the themes are cleared and the default one added.
remove_user_themes ==
    /\ Running
    /\ cx.resource_manager.themes # <<>>
    /\ \E r \in {add_theme_of([cx EXCEPT !.resource_manager.themes = <<>>],
                             DEFAULT_THEME)} :
          /\ cx' = r.cx
          /\ obs' = [NoObs EXCEPT !.op = "remove_user_themes", !.result = r.result]
    /\ UNCHANGED <<style_vars, shell_vars, files, probe>>

\* Context::add_stylesheet: the file is read first; an error returns before
\* anything is stored, otherwise the path is stored and the text parsed.
add_stylesheet(path) ==
    /\ Running
    /\ StyleSources(cx) < MaxStyleSources
    /\ IF ~IsSome(files[path])
       THEN /\ cx' = cx
            /\ obs' = [NoObs EXCEPT !.op = "add_stylesheet", !.result = "Err"]
       ELSE /\ cx' = [cx EXCEPT
                        !.resource_manager.stylesheets = Append(@, path),
                        !.style = parse_theme(@, Unwrap(files[path]))]
            /\ obs' = [NoObs EXCEPT !.op = "add_stylesheet", !.result = "Ok"]
    /\ UNCHANGED <<style_vars, shell_vars, files, probe>>

\* The style system has restyled: it clears the flag reload_styles sets.
restyled ==
    /\ Running
    /\ cx.style.needs_restyle
    /\ cx' = [cx EXCEPT !.style.needs_restyle = FALSE]
    /\ obs' = [NoObs EXCEPT !.op = "restyled"]
    /\ UNCHANGED <<style_vars, shell_vars, files, probe>>

\* ---------------------------------------------------- pseudo-class matching

\* The pseudo-classes the matcher is asked about.
PseudoClasses == {"Hover", "Enabled", "Disabled", "Lang", "Dir", "Custom"}

\* The entries of style.pseudo_classes an entity can have: none, or a set of flags.
PseudoClassEntries == {None, Some({}), Some({"HOVER"})}

\* One call of Element::match_non_ts_pseudo_class on an entity.
match_pseudo(entity, pseudo) ==
    /\ probe' = [NoProbe EXCEPT !.entity = entity, !.pseudo = pseudo,
                     !.outcome = match_non_ts_pseudo_class(entity, pseudo)]
    /\ UNCHANGED <<style_vars, shell_vars, cx, files, obs>>

\* One call of has_same_selector on two entities.
same_selector(entity1, entity2) ==
    /\ probe' = [NoProbe EXCEPT !.entity = entity1, !.other = entity2,
                     !.outcome = IF has_same_selector(entity1, entity2)
                                 THEN "same" ELSE "different"]
    /\ UNCHANGED <<style_vars, shell_vars, cx, files, obs>>

\* The style store and the style system after construction, apart from the
\* pseudo-class flags.
StoreAsBuilt ==
    /\ views = [e \in Entities |->
           IF e = Root THEN Some("root")
           ELSE IF e \in tree.ignored THEN None ELSE Some("label")]
    /\ ids = [e \in Entities |-> None]
    /\ props = [p \in PropNames |-> [e \in Entities |-> NullIndex]]
    /\ inline_data = [p \in PropNames |-> [e \in Entities |-> None]]
    /\ relayout = FALSE
    /\ text_update = {}
    /\ redrawn = <<>>
    /\ pc = "idle"
    /\ iterator = <<>>
    /\ parent = None
    /\ cache = <<>>
    /\ redraw_entities = <<>>
    /\ pass = NoPass
    /\ last = [dirty |-> {}, matched |-> <<>>, resolved |-> <<>>, fresh |-> FALSE]
    /\ budget = 0

\* ------------------------------------------------------- a pass run twice

\* What a restyle pass starts from, apart from the tree and the rule set, which
\* no pass changes: the style store and the dirty set.
StartOfPass ==
    [props |-> props, inline_data |-> inline_data, restyle |-> restyle,
     relayout |-> relayout, text_update |-> text_update, redrawn |-> redrawn]

\* What a restyle pass leaves: the resolved values, the relayout flag, the redraw
\* list and the text-update marks.
OutcomeOfPass ==
    [resolved |-> ResolvedIn(props), relayout |-> relayout, redrawn |-> redrawn,
     text_update |-> text_update]

\* The state a pass is about to start from is recorded.
record_start ==
    /\ pc = "idle"
    /\ ~IsSome(probe.start)
    /\ probe' = [probe EXCEPT !.start = Some(StartOfPass)]
    /\ UNCHANGED <<style_vars, shell_vars, cx, files, obs>>

\* The pass is over: its outcome is recorded and the recorded start is restored,
\* for a second run of the pass from the same state.
rewind ==
    /\ pc = "presented"
    /\ IsSome(probe.start)
    /\ ~IsSome(probe.first)
    /\ probe' = [probe EXCEPT !.first = Some(OutcomeOfPass)]
    /\ props' = Unwrap(probe.start).props
    /\ inline_data' = Unwrap(probe.start).inline_data
    /\ restyle' = Unwrap(probe.start).restyle
    /\ relayout' = Unwrap(probe.start).relayout
    /\ text_update' = Unwrap(probe.start).text_update
    /\ redrawn' = Unwrap(probe.start).redrawn
    /\ pc' = "idle"
    /\ UNCHANGED <<tree, views, ids, classes, pseudo_classes, rules, iterator,
                   parent, cache, redraw_entities, pass, last, budget, cx, files,
                   obs, shell_vars>>

\* After construction, apart from the pseudo-class flags.
ConstructedStore ==
    /\ StoreAsBuilt
    /\ ConstructedContext

\* After construction: every entity has a view, a class set and pseudo-class
\* flags (Style::add), no property has a value, and every entity is to be restyled.
Constructed ==
    /\ pseudo_classes = [e \in Entities |-> Some({})]
    /\ ConstructedStore

Init ==
    /\ tree \in Trees
    /\ rules \in RuleSets
    /\ classes \in ClassChoices(Entities)
    /\ restyle = Entities
    /\ Constructed

Next ==
    \/ style_system_begin
    \/ style_system_skip
    \/ style_system_match
    \/ style_system_finish
    \/ consume_outputs
    \/ needs_restyle_again
    \/ \E entity \in MutationTargets : needs_restyle(entity)
    \/ \E entity \in MutationTargets, name \in ClassNames : toggle_class(entity, name)
    \/ \E c \in InlineChoices : insert(c[1], c[2], c[3])

Spec == Init /\ [][Next]_vars

\* A wide tree: the root with WideSiblings children of class card, under a rule
\* set whose first rule has a positional selector and matches every child. The
\* restyle set is the whole tree, or the children alone.
WideTree == TreeOf([i \in 1..WideSiblings |-> 0], {})

InitWide ==
    /\ tree = WideTree
    /\ rules \in {<<CardOrNth>>, <<CardOrNth, LabelSize>>}
    /\ classes = [e \in Entities |-> Some(IF e # Root THEN {"card"} ELSE {})]
    /\ restyle \in {Entities, Entities \ {Root}}
    /\ Constructed

\* Passes of style_system over the wide tree, with no mutation between them.
NextWide ==
    \/ style_system_begin
    \/ style_system_skip
    \/ style_system_match
    \/ style_system_finish
    \/ consume_outputs
    \/ needs_restyle_again

SpecWide == InitWide /\ [][NextWide]_vars

\* The matcher asked about pseudo-classes, on a store in which an entity has an
\* entry of pseudo-class flags or has none (a sparse set: the matcher tests for
\* it), and in which the root is disabled inline or is not.
InitPseudo ==
    /\ tree = DeepTree
    /\ rules = <<>>
    /\ classes = [e \in Entities |-> Some({})]
    /\ restyle = {}
    /\ pseudo_classes \in [Entities -> PseudoClassEntries]
    /\ ConstructedStore

NextPseudo ==
    \/ \E entity \in Entities, pseudo \in PseudoClasses : match_pseudo(entity, pseudo)
    \/ \E entity1, entity2 \in Entities : same_selector(entity1, entity2)
    \/ insert(0, "disabled", "true")

SpecPseudo == InitPseudo /\ [][NextPseudo]_vars

\* One restyle pass run twice from the same state: after construction and at most
\* one inline value or class toggle, with every entity dirty or only two of them,
\* the start is recorded, the pass runs, the start is restored and the pass runs
\* again.
InitTwice ==
    /\ tree \in Trees
    /\ rules \in RuleSets
    /\ classes \in ClassChoices(Entities)
    /\ restyle \in {Entities, {1, 2}}
    /\ Constructed

NextTwice ==
    \/ ~IsSome(probe.start) /\ \E c \in InlineChoices : insert(c[1], c[2], c[3])
    \/ record_start
    \/ IsSome(probe.start) /\ style_system_begin
    \/ style_system_skip
    \/ style_system_match
    \/ style_system_finish
    \/ rewind

SpecTwice == InitTwice /\ [][NextTwice]_vars

\* An entity that is marked for restyling and that the tree does not hold.
Detached == Cardinality(Entities)

\* Passes of style_system with no mutation between them, from every entity dirty,
\* two of them, or one of them and a detached one. style_system is one call:
\* while it is in its Matching phase
\* the thread goes on executing it, so a pass that stays in the phase for ever
\* takes steps of the pass for ever.
PassStep == style_system_skip \/ style_system_match \/ style_system_finish

InitPasses ==
    /\ tree \in Trees
    /\ rules \in RuleSets
    /\ classes \in ClassChoices(Entities)
    /\ restyle \in {Entities, {1, 2}, {1, 3}, {1, Detached}}
    /\ Constructed

SpecPasses ==
    /\ InitPasses
    /\ [][NextWide]_vars
    /\ (<>[](pc = "matching") => []<><<PassStep>>_vars)

\* The Application running: built with or without an idle callback, polling or
\* waiting, with plain or windowing views, resumed with one window or two. The
\* window system closes windows and delivers input while the event loop
\* dispatches, and wakes the event loop.
Applications ==
    LET a0 == {Application_new, should_poll(Application_new)}
        a1 == a0 \cup {on_idle(a, callback) : a \in a0, callback \in IdleCallbacks}
        a2 == a1 \cup {[a EXCEPT !.handlers = "windowing"] : a \in a1}
    IN  {resumed(a, entities) : a \in a2, entities \in {{}, {1}}}

InitApp ==
    /\ tree = FlatTree
    /\ rules = <<>>
    /\ classes = [e \in Entities |-> Some({})]
    /\ restyle = {}
    /\ pseudo_classes = [e \in Entities |-> Some({})]
    /\ StoreAsBuilt
    /\ cx = Context_new
    /\ files = NoFiles
    /\ probe = NoProbe
    /\ obs = NoObs
    /\ draw = NoCall
    /\ app \in Applications

\* What the event loop does of itself: it delivers the user events sent to it,
\* calls about_to_wait, and stops waiting when it polls or has a user event.
LoopStep ==
    \/ user_event
    \/ about_to_wait
    \/ flush_events
    \/ process_updates
    \/ idle_callback
    \/ about_to_wait_end
    \/ new_events

NextApp ==
    \/ LoopStep
    \/ new_events_of_window
    \/ \E entity \in WindowEntities : window_event_close(entity)
    \/ \E entity \in WindowEntities : window_event_input(entity)

SpecApp == InitApp /\ [][NextApp]_vars /\ WF_vars(LoopStep)

\* A Context with the event proxy of a winit Application, or with none: views
\* are built, a thread is spawned and emits through its ContextProxy, while the
\* Application's event loop runs, and exits when its window is closed.
InitProxy ==
    /\ tree = FlatTree
    /\ rules = <<>>
    /\ classes = [e \in Entities |-> Some({})]
    /\ restyle = {}
    /\ pseudo_classes = [e \in Entities |-> Some({})]
    /\ StoreAsBuilt
    /\ cx \in {Context_new, set_event_proxy(Context_new)}
    /\ files = NoFiles
    /\ probe = NoProbe
    /\ obs = NoObs
    /\ draw = NoCall
    /\ app = resumed(Application_new, {})

NextProxy ==
    \/ build
    \/ leave
    \/ spawn
    \/ ContextProxy_emit
    \/ \E target \in CxEntities : ContextProxy_emit_to(target)
    \/ LoopStep
    \/ window_event_close(Root)

SpecProxy == InitProxy /\ [][NextProxy]_vars

\* The draw context of a display with some dpi factor, given a value: the
\* conversions are called on it, or has_pseudo_class is called; a thread that
\* is inside a call goes on executing it.
InitDraw ==
    /\ tree = FlatTree
    /\ rules = <<>>
    /\ classes = [e \in Entities |-> Some({})]
    /\ restyle = {}
    /\ pseudo_classes = [e \in Entities |-> Some({})]
    /\ StoreAsBuilt
    /\ cx = Context_new
    /\ files = NoFiles
    /\ probe = NoProbe
    /\ obs = NoObs
    /\ app = Application_new
    /\ \E dpi_factor \in DpiFactors, logical \in Values :
          draw = [NoCall EXCEPT !.dpi_factor = dpi_factor, !.logical = logical,
                                !.value = logical]

NextDraw ==
    \/ call_logical_to_physical
    \/ call_physical_to_logical
    \/ \E entity \in {0, 1}, cls \in PseudoClasses : has_pseudo_class(entity, cls)
    \/ has_pseudo_class_body
    \/ stack_overflow

SpecDraw ==
    /\ InitDraw
    /\ [][NextDraw]_vars
    /\ WF_vars(has_pseudo_class_body \/ stack_overflow)

\* The model stores an entity can have: none, a model, or a model and the view
\* struct stored as a model too.
ModelStores == {{}, {"AppData"}, {"AppData", "label"}}

\* data::<T>() called on the Context and on a draw context made from it (the
\* draw context borrows the tree, the model data and the views of the Context),
\* with any entity of the deep tree current.
InitData ==
    /\ tree = DeepTree
    /\ rules = <<>>
    /\ classes = [e \in Entities |-> Some({})]
    /\ restyle = {}
    /\ pseudo_classes = [e \in Entities |-> Some({})]
    /\ StoreAsBuilt
    /\ cx = Context_new
    /\ files = NoFiles
    /\ probe = NoProbe
    /\ obs = NoObs
    /\ app = Application_new
    /\ \E models \in [Entities -> ModelStores] :
          draw = [NoCall EXCEPT !.models = models]

NextData ==
    \/ \E current \in Entities, T \in DataTypes : call_DrawContext_data(current, T)
    \/ \E current \in Entities, T \in DataTypes : call_Context_data(current, T)

SpecData == InitData /\ [][NextData]_vars

\* The Context from its construction: views, models and bindings are built,
\* listeners and image observers are added, the mouse moves and is pressed, and
\* entities are removed.
InitContext ==
    /\ tree = FlatTree
    /\ rules = <<>>
    /\ classes = [e \in Entities |-> Some({})]
    /\ restyle = {}
    /\ Constructed

NextContext ==
    \/ build
    \/ leave
    \/ build_model
    \/ \E model \in CxEntities, lens \in LensIds, dedup \in BOOLEAN :
           bind(model, lens, dedup)
    \/ add_listener
    \/ \E path \in ImagePaths : add_image_observer(path, cx.current)
    \/ \E entity \in CxEntities : hover(entity)
    \/ press
    \/ \E entity \in CxEntities : remove(entity)

SpecContext == InitContext /\ [][NextContext]_vars

\* The Context from its construction, with or without the default theme in the
\* environment: themes and stylesheets are added and reloaded while the files
\* change on disk.
InitThemes ==
    /\ tree = FlatTree
    /\ rules = <<>>
    /\ classes = [e \in Entities |-> Some({})]
    /\ restyle = {}
    /\ pseudo_classes = [e \in Entities |-> Some({})]
    /\ \E include \in BOOLEAN :
          cx = [Context_new EXCEPT !.enviroment.include_default_theme = include]
    /\ files \in [Paths -> {None} \cup {Some(text) : text \in FileTexts}]
    /\ probe = NoProbe
    /\ obs = NoObs
    /\ app = Application_new
    /\ draw = NoCall
    /\ StoreAsBuilt

NextThemes ==
    \/ \E path \in Paths, text \in FileTexts : write_file(path, text)
    \/ \E path \in Paths : delete_file(path)
    \/ \E theme \in {DEFAULT_THEME} \cup UserThemes : add_theme(theme)
    \/ remove_user_themes
    \/ \E path \in Paths : add_stylesheet(path)
    \/ reload_styles
    \/ restyled

SpecThemes == InitThemes /\ [][NextThemes]_vars

\* ----------------------------------------------------------------- claims

\* The entities the current pass has matched, and the rule list it gave each.
Visited == {pass.matched[i][1] : i \in 1..Len(pass.matched)}
MatchedOf(e) == pass.matched[CHOOSE i \in 1..Len(pass.matched) : pass.matched[i][1] = e][2]
Range(s) == {s[i] : i \in 1..Len(s)}
RuleIds(list) == {list[i][1] : i \in 1..Len(list)}

\* Two entities of one shape: the same element, id, class set and flags.
IdenticalShape(e1, e2) ==
    /\ views[e1] = views[e2]
    /\ ids[e1] = ids[e2]
    /\ classes[e1] = classes[e2]
    /\ pseudo_classes[e1] = pseudo_classes[e2]

\* Two different entities with the same layout parent.
LayoutSiblingsOf(e1, e2) ==
    /\ e1 # e2
    /\ IsSome(get_layout_parent(e1))
    /\ get_layout_parent(e1) = get_layout_parent(e2)

\* A rule of the rule set has a positional (Nth) selector.
IsPositional(r) == \E k \in 1..Len(r.selectors) : HasNthComponent(r.selectors[k])
Matches(r, e) == IsSome(FirstMatching(r.selectors, e))

\* C1: when a rule with a positional selector matches exactly one of two dirty
\* siblings of one shape, the pass gives the two siblings different rule lists:
\* the rule is in one list and not in the other.
C1_PositionalRuleSeparatesSiblings ==
    pc = "presented" =>
        \A e1 \in Visited, e2 \in Visited :
            \A i \in 1..Len(rules) :
                (/\ LayoutSiblingsOf(e1, e2)
                 /\ IdenticalShape(e1, e2)
                 /\ IsPositional(rules[i])
                 /\ Matches(rules[i], e1)
                 /\ ~Matches(rules[i], e2))
                => (/\ rules[i].rule \in RuleIds(MatchedOf(e1))
                    /\ rules[i].rule \notin RuleIds(MatchedOf(e2)))

\* The properties that are inherited, and the entities without an inline value.
Inheritable ==
    InlineRedrawProps \cup InlineTextProps \cup SharedRedrawProps \cup SharedTextProps
NoInlineValue(e) == \A p \in PropNames : inline_data[p][e] = None
InheritedValue(p, e) ==
    IF IsSome(get_layout_parent(e)) THEN Get(p, Unwrap(get_layout_parent(e))) ELSE None

\* C2: after a call of style_system, an entity that no rule matches and that has
\* no inline value resolves every inheritable property to the value of its layout
\* parent and every other property to the default.
C2_UnmatchedEntityHasDefaults ==
    pc = "presented" =>
        \A e \in Entities :
            (NoInlineValue(e) /\ compute_matched_rules(e) = <<>>) =>
                \A p \in PropNames :
                    Get(p, e) = (IF p \in Inheritable THEN InheritedValue(p, e) ELSE None)

\* C3: a property with an inline value on an entity resolves to that value
\* whatever rules match the entity, and an inline background-color is not handed
\* to an entity that has no inline background-color of its own.
C3_InlineValueWins ==
    /\ \A e \in Entities, p \in PropNames :
           IsSome(inline_data[p][e]) => Get(p, e) = inline_data[p][e]
    /\ \A d \in Entities :
           inline_data["background_color"][d] = None =>
               props["background_color"][d].kind # "inline"

\* C3 witness: a pass matched the rule of class card (background red) on an entity
\* that has an inline blue background and resolves to blue, and a child of that
\* entity, matched by no rule, has no background.
C3_Witness ==
    /\ pc = "presented"
    /\ \E e \in Visited, d \in Visited :
           /\ CardRed.rule \in RuleIds(MatchedOf(e))
           /\ inline_data["background_color"][e] = Some("blue")
           /\ Get("background_color", e) = Some("blue")
           /\ get_layout_parent(d) = Some(e)
           /\ MatchedOf(d) = <<>>
           /\ NoInlineValue(d)
           /\ Get("background_color", d) = None

\* The place of a rule in the rule set (its declaration order).
DeclIndex(r) == CHOOSE i \in 1..Len(rules) : rules[i].rule = r

\* A list of (rule, specificity) is ordered by specificity, highest first, and
\* among equal specificities the rule declared later comes first.
OrderedBySpecificity(list) ==
    \A i \in 1..Len(list), j \in 1..Len(list) :
        i < j => \/ list[i][2] > list[j][2]
                 \/ /\ list[i][2] = list[j][2]
                    /\ DeclIndex(list[i][1]) > DeclIndex(list[j][1])

\* C4: compute_matched_rules returns the matching rules by non-increasing
\* specificity, the later-declared rule first among equal specificities, so the
\* later-declared of two equal rules is the one a property is linked to.
C4_LaterRuleWinsTies ==
    \A e \in Entities :
        LET list == compute_matched_rules(e) IN
        /\ OrderedBySpecificity(list)
        /\ \A p \in LinkedProps :
               LET r == FirstDeclaring(p, Firsts(list)) IN
               IsSome(r) =>
                   \A k \in 1..Len(list) :
                       IsSome(SharedData(p, list[k][1])) =>
                           \/ list[k][1] = Unwrap(r)
                           \/ list[k][2] < list[IndexOf(Firsts(list), Unwrap(r))][2]
                           \/ /\ list[k][2] = list[IndexOf(Firsts(list), Unwrap(r))][2]
                              /\ DeclIndex(list[k][1]) < DeclIndex(Unwrap(r))

\* C4 witness: a pass matched an entity with two rules of equal specificity that
\* both declare background-color, and the entity resolved to the later rule's value.
C4_Witness ==
    /\ pc = "presented"
    /\ \E e \in Visited :
           /\ Len(MatchedOf(e)) >= 2
           /\ MatchedOf(e)[1][2] = MatchedOf(e)[2][2]
           /\ MatchedOf(e)[1][1] = BigBlue.rule
           /\ MatchedOf(e)[2][1] = CardRed.rule
           /\ Get("background_color", e) = Some("blue")

\* No rule of the rule set has a positional selector.
NoPositionalRule == \A i \in 1..Len(rules) : ~IsPositional(rules[i])

\* Neither the first nor the last child of its parent.
MiddleChild(e) == ~is_first_child(e) /\ ~is_last_child(e)

DirtyGroup(lp) == {e \in Visited : get_layout_parent(e) = lp}
OneShape(G) == \A e1 \in G, e2 \in G : IdenticalShape(e1, e2)

\* C7 as stated: of N dirty siblings of one shape under one layout parent, with no
\* positional rule, a pass computes the rules of one and takes N-1 from the cache.
C7_OneFullMatchPerGroup ==
    (pc = "presented" /\ NoPositionalRule) =>
        \A P \in Entities :
            LET G == DirtyGroup(Some(P)) IN
            (G # {} /\ OneShape(G)) =>
                /\ Cardinality(G \cap Range(pass.computed)) = 1
                /\ Cardinality(G \cap Range(pass.cached)) = Cardinality(G) - 1

\* C7 amended: when the N >= 2 siblings are all the children of their parent, the
\* pass computes the rules of the first and of the last child and takes those of
\* the N-2 others from the cache.
C7_FirstAndLastAreComputed ==
    (pc = "presented" /\ NoPositionalRule) =>
        \A P \in Entities :
            LET G == {Children(P)[i] : i \in 1..Len(Children(P))} IN
            (/\ Cardinality(G) >= 2
             /\ G \subseteq Visited
             /\ OneShape(G))
            => /\ G \cap Range(pass.computed) = {e \in G : ~MiddleChild(e)}
               /\ G \cap Range(pass.cached) = {e \in G : MiddleChild(e)}
               /\ Cardinality(G \cap Range(pass.computed)) = 2

\* C7 witness: a pass over all four children of one parent, of one shape and
\* matched by a rule, computed two of them and served two from the cache.
C7_Witness ==
    /\ pc = "presented"
    /\ NoPositionalRule
    /\ \E P \in Entities :
           LET G == {Children(P)[i] : i \in 1..Len(Children(P))} IN
           /\ Cardinality(G) = 4
           /\ G \subseteq Visited
           /\ OneShape(G)
           /\ \A e \in G : MatchedOf(e) # <<>>
           /\ Cardinality(G \cap Range(pass.computed)) = 2
           /\ Cardinality(G \cap Range(pass.cached)) = 2

\* A step of the matching loop on a dirty entity.
MatchStep == pc = "matching" /\ iterator # <<>> /\ iterator' = Tail(iterator)
                /\ Head(iterator) \in restyle
HasEntryFor(entries, e) == \E i \in 1..Len(entries) : entries[i].entity = e

\* C8 as stated: every step of the matching loop leaves a cache entry for its
\* entity, also when the rules came from the cache.
C8_EntryPushedInEveryCase ==
    [][MatchStep => HasEntryFor(cache', Head(iterator))]_vars

\* C8 amended: the step pushes an entry for its entity, with the rules it gave the
\* entity, exactly when it computed them; on a cache hit the cache is unchanged.
C8_EntryPushedWhenComputed ==
    [][MatchStep =>
        IF Len(pass'.computed) > Len(pass.computed)
        THEN /\ cache' # <<>>
             /\ cache'[Len(cache')] =
                    [entity |-> Head(iterator),
                     rules |-> pass'.matched[Len(pass'.matched)][2]]
        ELSE /\ cache' = cache
             /\ ~HasEntryFor(cache', Head(iterator))]_vars

\* C8 witness: the loop is past a cache hit, and the cache has no entry for the
\* entity that was served from it.
C8_Witness ==
    /\ pc = "matching"
    /\ pass.cached # <<>>
    /\ cache # <<>>
    /\ ~HasEntryFor(cache, pass.cached[Len(pass.cached)])
    /\ pass.matched[Len(pass.matched)][1] = pass.cached[Len(pass.cached)]

\* C9: the cache of a pass holds at most a fixed number of entries, whatever the
\* number of dirty siblings and the rule set: never more than the capacity it is
\* created with, the one constant the code has for it.
C9_CacheWithinCapacity == Len(cache) <= CacheCapacity

\* The number of times a phase is in the phases of a pass.
Times(phases, name) == Cardinality({i \in 1..Len(phases) : phases[i] = name})

\* C10: every call of style_system runs inline inheritance once, as its first
\* step, also when the restyle set is empty, and goes on to matching exactly when
\* the restyle set is not empty.
C10_InlineInheritanceRunsFirst ==
    [][/\ (pc = "idle" /\ pc' # "idle") =>
            LET st == inline_inheritance_system(
                          [props |-> props, redraw |-> <<>>, text |-> text_update]) IN
            /\ props' = st.props
            /\ text_update' = st.text
            /\ pass'.inline_redraw = st.redraw
            /\ (pc' = "matching") = (restyle # {})
       /\ (pc' # "idle") =>
            /\ pass'.phases # <<>>
            /\ pass'.phases[1] = "inline"
            /\ Times(pass'.phases, "inline") = 1
            /\ Times(pass'.phases, "matching") = (IF pass'.dirty # {} THEN 1 ELSE 0)]_vars

\* C10 witness: a call with an empty restyle set is over: it ran inline
\* inheritance, which handed a new inline value down, and no other phase.
C10_Witness ==
    /\ pc = "presented"
    /\ pass.phases = <<"inline">>
    /\ pass.dirty = {}
    /\ pass.inline_redraw # <<>>

\* C11: every entity that the inline-inheritance step of a call put in the
\* redraw list (its inherited disabled or caret-color changed) has been handed to
\* cx.needs_redraw when the call is over, also when the restyle set was empty.
C11_InlineRedrawIsReported ==
    pc = "presented" => Range(pass.inline_redraw) \subseteq Range(redrawn)

\* The first step of a call of style_system, and the entities whose data index of
\* one of the properties ps the step changed.
BeginStep == pc = "idle" /\ pc' # "idle"
ChangedIn(ps) == {e \in Entities : \E p \in ps : props'[p][e] # props[p][e]}

\* C12 as stated: inline inheritance puts an entity in the redraw list whenever
\* it changed the entity's value of disabled, of caret-color or of a font property.
C12_EveryInlineChangeIsRedrawn ==
    [][BeginStep =>
          ChangedIn({"disabled", "caret_color", "font_color", "font_size"})
              \subseteq Range(pass'.inline_redraw)]_vars

\* C12 amended: the redraw list gets exactly the entities whose disabled or
\* caret-color changed; a change of a font property marks the entity for a text
\* update instead.
C12_FontChangesMarkTextUpdate ==
    [][BeginStep =>
          /\ Range(pass'.inline_redraw) = ChangedIn({"disabled", "caret_color"})
          /\ text_update' = text_update \cup ChangedIn({"font_color", "font_size"})]_vars

\* C12 witness: a call with an empty restyle set handed an inline font-size down:
\* the entity is marked for a text update and the redraw list is empty.
C12_Witness ==
    /\ pc = "presented"
    /\ pass.phases = <<"inline">>
    /\ pass.inline_redraw = <<>>
    /\ \E e \in text_update :
           /\ props["font_size"][e].kind = "inline"
           /\ props["font_size"][e].inherited

\* The last step of a call of style_system that entered the Matching phase.
FinishStep == pc = "matching" /\ iterator = <<>> /\ pc' = "presented"

\* On the data indices P, every entity without a value of its own whose layout
\* parent is linked to a rule holds that rule's value as an inherited one.
InheritsSharedFromParent(P) ==
    \A e \in Entities : \A p \in SharedTextProps \cup SharedRedrawProps :
        LET lp == get_layout_parent(e) IN
        (IsSome(lp) /\ P[p][Unwrap(lp)].kind = "shared" /\ ~HasOwnValue(P[p][e]))
            => P[p][e] = SharedIndex(P[p][Unwrap(lp)].index, TRUE)

\* C13: in a call that enters the Matching phase, a step of the loop changes the
\* data indices of the entity it links and of no other entity, shared inheritance
\* runs once, as the last phase, when every dirty entity has been linked, and it
\* leaves every child without a value of its own with the shared value its layout
\* parent resolved in this call.
C13_SharedInheritanceAfterAllLinking ==
    [][/\ MatchStep =>
              \A e \in Entities \ {Head(iterator)} : \A p \in PropNames :
                  props'[p][e] = props[p][e]
       /\ FinishStep =>
              /\ pass.dirty \subseteq Visited
              /\ Times(pass.phases, "shared") = 0
              /\ pass'.phases = <<"inline", "matching", "shared">>
              /\ InheritsSharedFromParent(props')]_vars

\* C13 witness: a call is over in which a dirty parent was linked to a rule for a
\* shared-inherited property and its child holds that rule's value as inherited.
C13_Witness ==
    /\ pc = "presented"
    /\ pass.phases = <<"inline", "matching", "shared">>
    /\ \E e \in Entities : \E p \in SharedTextProps \cup SharedRedrawProps :
           LET lp == get_layout_parent(e) IN
           /\ IsSome(lp)
           /\ Unwrap(lp) \in Visited
           /\ props[p][Unwrap(lp)].kind = "shared"
           /\ ~props[p][Unwrap(lp)].inherited
           /\ props[p][Unwrap(lp)].index \in RuleIds(MatchedOf(Unwrap(lp)))
           /\ props[p][e] = SharedIndex(props[p][Unwrap(lp)].index, TRUE)

\* C14: matching :lang, :dir or a custom pseudo-class against an entity never
\* returns a boolean: it stops at todo!(), whatever entries the entity has in the
\* store.
C14_UnsupportedPseudoClassFailsLoudly ==
    probe.pseudo \in Unimplemented => probe.outcome = "todo"

\* A step of reload_styles, and a step in which applying a stylesheet failed:
\* add_stylesheet or reload_styles returned an error.
ReloadStep == obs'.op = "reload_styles"
FailedStep ==
    /\ obs'.op \in {"reload_styles", "add_stylesheet"}
    /\ obs'.result = "Err"

\* C15: when applying a stylesheet fails, the rule set and the values resolved
\* from it are those that were in effect before: no rule was cleared, and nothing
\* of the new text was applied.
C15_FailureLeavesRulesInEffect ==
    [][FailedStep =>
          /\ cx'.style.rules = cx.style.rules
          /\ cx'.style.shared_data = cx.style.shared_data]_vars

\* A step of Context::remove.
RemoveStep == obs'.op = "remove" /\ cx' # cx

\* a is an ancestor of e in the Context's tree t.
RECURSIVE IsAncestor(_, _, _)
IsAncestor(t, a, e) ==
    /\ e \in DOMAIN t
    /\ IsSome(t[e])
    /\ Unwrap(t[e]) = a \/ IsAncestor(t, a, Unwrap(t[e]))

Subtree(t, entity) == {e \in DOMAIN t : e = entity \/ IsAncestor(t, entity, e)}

\* The entity-keyed tables Context::remove clears: which of them hold entity e.
TablesHolding(c, e) ==
    {name \in {"tree", "cache", "style", "data", "views", "entity_manager"} :
        CASE name = "tree" -> e \in DOMAIN c.tree
          [] name = "cache" -> e \in c.cache
          [] name = "style" -> e \in c.style.entities
          [] name = "data" -> e \in DOMAIN c.data
          [] name = "views" -> e \in c.views
          [] name = "entity_manager" -> e \in c.entity_manager.alive}

\* C16: Context::remove(e) takes e and each of its descendants out of the tree,
\* the cache, the style store, the model data, the views and the entity manager,
\* a descendant before its ancestors, and leaves every other entity in each of
\* the tables that held it.
C16_RemoveIsTransitiveAndExact ==
    [][RemoveStep =>
          LET sub == Subtree(cx.tree, obs'.entity) IN
          /\ Range(obs'.destroyed) = sub
          /\ \A e \in sub : TablesHolding(cx', e) = {}
          /\ \A e \in CxEntities \ sub : TablesHolding(cx', e) = TablesHolding(cx, e)
          /\ \A i, j \in 1..Len(obs'.destroyed) :
                 IsAncestor(cx.tree, obs'.destroyed[i], obs'.destroyed[j]) => j < i]_vars

\* C16 witness: a remove took out an entity with its descendant, one of the two
\* with model data, and the root, outside the subtree, is still in its tables.
C16_Witness ==
    /\ obs.op = "remove"
    /\ Len(obs.destroyed) >= 2
    /\ Range(obs.destroyed) \cap DOMAIN obs.data # {}
    /\ \E e \in CxEntities \ Range(obs.destroyed) :
           {"tree", "cache", "style", "entity_manager"} \subseteq TablesHolding(cx, e)

\* The entities that have an entry in a side table of the Context: the tables
\* Context::remove clears, the listeners, and the observers of the stored images.
SideTableEntities(c) ==
    UNION {DOMAIN c.tree, c.cache, c.style.entities, DOMAIN c.data, c.views,
           c.listeners,
           UNION {c.resource_manager.images[path] :
                     path \in DOMAIN c.resource_manager.images}}

\* C17: whatever views were built, listeners and image observers added and
\* entities removed, no entity-keyed side table holds an entry for an entity that
\* was removed.
C17_NoEntryForRemovedEntity ==
    SideTableEntities(cx) \subseteq cx.entity_manager.alive

\* C18: right after Context::remove, the captured, the hovered and the focused
\* entity are none of the removed ones.
C18_NoPointerIntoRemovedSubtree ==
    obs.op = "remove" =>
        {cx.captured, cx.hovered, cx.focused} \cap Range(obs.destroyed) = {}

\* The observer sets of the lenses of a model store, map and list together.
ObserverSets(store) ==
    {store.lenses_dedup[id] : id \in DOMAIN store.lenses_dedup}
        \cup {store.lenses_dup[i].observers : i \in 1..Len(store.lenses_dup)}

\* C19: after Context::remove no lens of any model store lists a removed entity
\* as an observer and no lens is left without observers; a lens that another
\* entity observes is kept, with its other observers.
C19_LensesPrunedOfRemovedObservers ==
    [][RemoveStep =>
          LET gone == Range(obs'.destroyed) IN
          /\ \A m \in DOMAIN cx'.data : \A observers \in ObserverSets(cx'.data[m]) :
                 observers # {} /\ observers \cap gone = {}
          /\ \A m \in DOMAIN cx.data \ gone :
                 /\ m \in DOMAIN cx'.data
                 /\ \A id \in DOMAIN cx.data[m].lenses_dedup :
                        LET kept == cx.data[m].lenses_dedup[id] \ gone IN
                        kept # {} =>
                            /\ id \in DOMAIN cx'.data[m].lenses_dedup
                            /\ cx'.data[m].lenses_dedup[id] = kept
                 /\ cx'.data[m].lenses_dup =
                        SelectSeq([i \in 1..Len(cx.data[m].lenses_dup) |->
                                      [cx.data[m].lenses_dup[i] EXCEPT
                                          !.observers = @ \ gone]],
                                  LAMBDA l : l.observers # {})]_vars

\* C19 witness: a remove took an observer out of a lens that another entity
\* observes too, and the lens is still in the store.
C19_Witness ==
    /\ obs.op = "remove"
    /\ \E m \in DOMAIN cx.data \cap DOMAIN obs.data :
       \E id \in DOMAIN obs.data[m].lenses_dedup \cap DOMAIN cx.data[m].lenses_dedup :
           /\ obs.data[m].lenses_dedup[id] \cap Range(obs.destroyed) # {}
           /\ cx.data[m].lenses_dedup[id] # {}

\* The texts of the stored themes and stylesheets of the Context c, in order.
RECURSIVE Concat(_)
Concat(texts) == IF texts = <<>> THEN <<>> ELSE Head(texts) \o Concat(Tail(texts))

StoredTexts(c) ==
    Concat((IF c.enviroment.include_default_theme \/ c.resource_manager.themes = <<>>
            THEN c.resource_manager.themes ELSE Tail(c.resource_manager.themes))
           \o [i \in 1..Len(c.resource_manager.stylesheets) |->
                  Unwrap(files[c.resource_manager.stylesheets[i]])])

\* C20: a reload_styles that succeeds with a theme or a stylesheet stored leaves
\* the rules of the stored texts and no older rule, and sets needs_restyle; with
\* no theme and no stylesheet stored it returns Ok and changes nothing.
C20_ReloadReplacesRules ==
    [][ReloadStep =>
          IF cx.resource_manager.themes = <<>> /\ cx.resource_manager.stylesheets = <<>>
          THEN obs'.result = "Ok" /\ cx' = cx
          ELSE obs'.result = "Ok" =>
                   /\ cx'.style.rules = StoredTexts(cx)
                   /\ cx'.style.needs_restyle
                   /\ cx'.resource_manager = cx.resource_manager]_vars

\* C20 witness: a reload succeeded with a stylesheet stored: the rule set is not
\* empty and needs_restyle is set.
C20_Witness ==
    /\ obs.op = "reload_styles"
    /\ obs.result = "Ok"
    /\ cx.style.needs_restyle
    /\ cx.resource_manager.stylesheets # <<>>
    /\ cx.style.rules # <<>>

\* A step of the Matching loop that links an entity, and the layout ancestors of
\* an entity that are displayed (display is not none) on the data indices P.
LinkStep == MatchStep /\ Head(iterator) \in restyle
DisplayedAncestors(P, e) ==
    LET chain == LayoutAncestors(e) IN
    {i \in 1..Len(chain) : GetIn(P, "display", chain[i]) # Some("none")}

\* C21: when linking changes a reflow-affecting property (font-size, font-color)
\* of an entity, exactly one entity is newly marked for a text update, the nearest
\* displayed layout ancestor of the entity (never the entity itself); without
\* such an ancestor, or without such a change, linking marks nothing.
C21_ReflowMarksNearestDisplayedAncestor ==
    [][LinkStep =>
          LET e == Head(iterator)
              chain == LayoutAncestors(e)
              shown == DisplayedAncestors(props', e)
              changed == \E p \in {"font_size", "font_color"} :
                             props'[p][e] # props[p][e]
          IN IF changed /\ shown # {}
             THEN /\ text_update' =
                        text_update \cup {chain[CHOOSE i \in shown :
                                                   \A j \in shown : i <= j]}
                  /\ chain[CHOOSE i \in shown : \A j \in shown : i <= j] # e
             ELSE text_update' = text_update]_vars

\* C21 witness: the entity just linked took its font-size from a rule, its layout
\* parent is not displayed, and the root, the next ancestor, is marked while the
\* parent is not.
C21_Witness ==
    /\ pc = "matching"
    /\ pass.matched # <<>>
    /\ LET e == pass.matched[Len(pass.matched)][1]
           lp == get_layout_parent(e)
       IN /\ IsSome(lp)
          /\ Unwrap(lp) # Root
          /\ Get("display", Unwrap(lp)) = Some("none")
          /\ props["font_size"][e].kind = "shared"
          /\ ~props["font_size"][e].inherited
          /\ Root \in text_update
          /\ Unwrap(lp) \notin text_update

\* C22: linking an entity raises the RELAYOUT flag exactly when a layout-classified
\* property (display, font-size) of the entity changed, and never lowers it; it
\* pushes the entity to the redraw list, once, exactly when a paint-classified
\* property (every linked property) changed.
C22_FlagsFollowChangedClasses ==
    [][LinkStep =>
          LET e == Head(iterator)
              Changed(ps) == \E p \in ps : props'[p][e] # props[p][e]
          IN /\ relayout' = (relayout \/ Changed({"display", "font_size"}))
             /\ redraw_entities' =
                    IF Changed({"display", "background_color", "font_size",
                                "font_color", "caret_color"})
                    THEN Append(redraw_entities, e) ELSE redraw_entities]_vars

\* C22 witness: the entity just linked was pushed to the redraw list for a change
\* of a paint-only property, and the RELAYOUT flag is not set.
C22_Witness ==
    /\ pc = "matching"
    /\ pass.matched # <<>>
    /\ redraw_entities # <<>>
    /\ redraw_entities[Len(redraw_entities)] = pass.matched[Len(pass.matched)][1]
    /\ ~relayout

C24_PassTerminates ==
    /\ [][/\ (BeginStep /\ pc' = "matching") =>
                 (iterator' = TreeBreadthIterator /\ pass'.dirty = restyle)
          /\ (pc = "matching" /\ pc' = "matching") =>
                 (iterator' = Tail(iterator) /\ restyle' = restyle
                  /\ pass'.dirty = pass.dirty)
          /\ pc = "matching" => restyle' \subseteq restyle]_vars
    /\ [](\A i, j \in 1..Len(pass.matched) :
              pass.matched[i][1] = pass.matched[j][1] => i = j)
    /\ (pc = "matching" ~> pc = "presented")

\* C24 witness: a pass over a tree with clean and dirty entities is over: the
\* dirty ones were matched, the clean ones left out.
C24_Witness ==
    /\ pc = "presented"
    /\ pass.dirty = {1, 2}
    /\ Visited = {1, 2}
    /\ Cardinality(Entities) > 3

\* C25: when style_system has returned from a pass that entered the Matching
\* phase, the restyle set is empty, whether the traversal of the tree reached
\* every entity of the set or not.
C25_RestyleEmptyAfterPass ==
    /\ [][FinishStep => restyle' = {}]_vars
    /\ [](pc = "presented" => restyle = {})

\* C25 witness: a pass has returned whose restyle set held an entity outside the
\* tree: the traversal did not reach it, and the set is empty all the same.
C25_Witness ==
    /\ pc = "presented"
    /\ Detached \in pass.dirty
    /\ Detached \notin Visited
    /\ Visited # {}
    /\ restyle = {}

\* The messages in the Context's queue of the Application.
QueuedMessages ==
    {app.cx.event_queue[i].message : i \in 1..Len(app.cx.event_queue)}

\* The messages an event can carry.
Messages == {<<kind, n>> : kind \in {"input", "handler", "idle"}, n \in 1..MaxEvents}

\* A call of about_to_wait with a window is over.
AboutToWaitOver == app.event_loop.at \in {"waiting", "exited"} /\ app.steps # <<>>

\* The idle callback ran once in each call of about_to_wait that had a window,
\* after the flush that left the queue empty and after the style updates; events
\* queued when the callback has run come with a wake-up event sent to the loop.
IdleCallbackInItsPlace ==
    /\ [][/\ (app.event_loop.at = "flush" /\ app'.event_loop.at = "update") =>
                 app'.cx.event_queue = <<>>
          /\ (app.event_loop.at = "idle" /\ IsSome(app.on_idle)) =>
                 /\ app.steps[Len(app.steps) - 3] = "flush_events"
                 /\ app.steps[Len(app.steps) - 2] = "process_style_updates"
                 /\ app'.steps = Append(app.steps, "idle_callback")
          /\ (app.event_loop.at = "wake" /\ app.cx.event_queue # <<>>
                 /\ app'.event_loop.at # "wake") =>
                 app'.event_loop.user_events =
                     Append(app.event_loop.user_events, Event_new(Unit))]_vars
    /\ [](AboutToWaitOver /\ IsSome(app.on_idle) =>
              Cardinality({i \in 1..Len(app.steps) : app.steps[i] = "idle_callback"}) = 1)

\* C26 as stated: the idle callback runs once in each call of about_to_wait that
\* has a window, after the flush of the queue and the style updates, and the
\* events queued when it has run are handled in the end.
C26_QueuedAfterIdleAreHandled ==
    /\ IdleCallbackInItsPlace
    /\ \A m \in Messages :
           (app.event_loop.at = "waiting" /\ m \in QueuedMessages)
               ~> (m \in app.handled)

\* C26: the idle callback runs once in each call of about_to_wait that has a
\* window, after the flush of the queue and the style updates; for the events
\* queued when it has run a wake-up event is sent, and they are handled in the
\* end unless the event loop exits, its last window closed, before the flush.
C26_QueuedAfterIdleAreHandledOrLoopExits ==
    /\ IdleCallbackInItsPlace
    /\ \A m \in Messages :
           (app.event_loop.at = "waiting" /\ m \in QueuedMessages)
               ~> (m \in app.handled \/ app.event_loop.at = "exited")

\* C26 witness: an event the idle callback emitted was handled by a later call
\* of about_to_wait, in an Application that waits.
C26_Witness ==
    /\ app.control_flow = "Wait"
    /\ \E n \in 1..MaxEvents : <<"idle", n>> \in app.handled
    /\ AboutToWaitOver

\* C27: a call of DrawContext::has_pseudo_class(entity, cls) ends, for every
\* entity and pseudo-class, having returned a boolean.
C27_HasPseudoClassReturns ==
    (draw.frames > 0) ~> (draw.frames = 0 /\ draw.outcome = "")

\* C28: physical_to_logical undoes logical_to_physical: for every value and
\* every dpi factor other than 1, the value converted to physical pixels and
\* back is the value.
C28_PhysicalToLogicalInvertsLogicalToPhysical ==
    (/\ draw.calls = <<"logical_to_physical", "physical_to_logical">>
     /\ draw.dpi_factor # Rat(1, 1))
        => draw.value = draw.logical

\* A step of the spawned thread calling emit or emit_to on its ContextProxy.
ProxyEmitStep == obs'.made = obs.made + 1 /\ obs'.op \in {"emit", "emit_to"}

\* The event the step sent, when it sent one.
SentEvent == app'.event_loop.user_events[Len(app'.event_loop.user_events)]

\* C29: ContextProxy::emit and emit_to return Err(Unsupported) and send nothing
\* when the proxy has no event proxy, Err(EventLoopClosed) when the send fails,
\* the event loop being closed, and Ok(()) otherwise, having sent one event whose
\* origin is the entity that was current when the proxy was made; its target is
\* that entity and it propagates Up (emit), or the given target and Direct
\* (emit_to).
C29_ProxyEmitOutcomes ==
    [][/\ (obs'.op = "spawn" /\ obs' # obs) =>
              /\ Unwrap(app'.spawned).current = cx.current
              /\ Unwrap(app'.spawned).event_proxy = cx.event_proxy
       /\ IsSome(app.spawned) => app'.spawned = app.spawned
       /\ ProxyEmitStep =>
              LET cxp == Unwrap(app.spawned)
                  closed == app.event_loop.at = "exited"
              IN  /\ ~IsSome(cxp.event_proxy) =>
                         /\ obs'.result = "Err(Unsupported)"
                         /\ app' = app
                  /\ (IsSome(cxp.event_proxy) /\ closed) =>
                         /\ obs'.result = "Err(EventLoopClosed)"
                         /\ app' = app
                  /\ (IsSome(cxp.event_proxy) /\ ~closed) =>
                         /\ obs'.result = "Ok(())"
                         /\ app'.event_loop.user_events =
                                Append(app.event_loop.user_events, SentEvent)
                         /\ app' = [app EXCEPT !.event_loop.user_events =
                                                    app'.event_loop.user_events]
                         /\ SentEvent.origin = cxp.current
                         /\ obs'.op = "emit" =>
                                /\ SentEvent.target = cxp.current
                                /\ SentEvent.propagation = "Up"
                         /\ obs'.op = "emit_to" =>
                                /\ SentEvent.target = obs'.entity
                                /\ SentEvent.propagation = "Direct"]_vars

\* C29 witness: emit_to returned Ok(()) for a target other than the entity that
\* was current when the proxy was made, when the Context's current entity is
\* yet another one; the event is in the event loop's queue.
C29_Witness ==
    /\ obs.op = "emit_to"
    /\ obs.result = "Ok(())"
    /\ IsSome(app.spawned)
    /\ obs.entity # Unwrap(app.spawned).current
    /\ cx.current # Unwrap(app.spawned).current
    /\ app.event_loop.user_events # <<>>
    /\ app.event_loop.user_events[Len(app.event_loop.user_events)].origin
           = Unwrap(app.spawned).current

\* C30: for every dirty entity a pass visits, the rule list handed to
\* link_style_data (it is handed when it is not empty), computed or taken from
\* the cache, is the list
\* compute_matched_rules returns for the entity in that state, whatever the
\* rule set: sibling combinators, :disabled, :empty and positional selectors
\* included.
C30_HandedListIsComputedList ==
    [][(LinkStep /\ pass'.matched[Len(pass'.matched)][2] # <<>>) =>
           pass'.matched[Len(pass'.matched)] =
               <<Head(iterator), compute_matched_rules(Head(iterator))>>]_vars

\* What an entity stores, an absent entry read as the empty one.
StoredOrEmpty(entry) == IF IsSome(entry) THEN Unwrap(entry) ELSE {}

\* C31: has_same_selector returns true only for two entities of the same
\* element, the same id, equal class sets and the same pseudo-class flags, an
\* entity without a stored class set or without stored flags counting as one
\* with the empty set.
C31_SameSelectorMeansSameShape ==
    probe.outcome = "same" =>
        /\ views[probe.entity] = views[probe.other]
        /\ ids[probe.entity] = ids[probe.other]
        /\ StoredOrEmpty(classes[probe.entity]) = StoredOrEmpty(classes[probe.other])
        /\ StoredOrEmpty(pseudo_classes[probe.entity])
               = StoredOrEmpty(pseudo_classes[probe.other])

\* The cache entries of the shape of e, and those of them whose rule list has
\* no rule with a positional selector.
ShapedLike(e) == {i \in 1..Len(cache) : has_same_selector(cache[i].entity, e)}
Qualifying(e) ==
    {i \in ShapedLike(e) :
        \A j \in 1..Len(rules) :
            rules[j].rule \in RuleIds(cache[i].rules) => ~IsPositional(rules[j])}

\* The rule list a step of the loop gave its entity.
Handed == pass'.matched[Len(pass'.matched)][2]

\* C32: a cache entry of the shape of the visited entity whose rule list has a
\* rule with an nth-child, nth-last-child or only-child component in any of its
\* selectors is not used: when no other entry qualifies the list of the entity
\* comes from full matching, and when one does it is the list of the first
\* qualifying entry; also when the rule matched through another selector.
C32_PositionalEntryIsNotUsed ==
    [][(MatchStep /\ SameGroup(Head(iterator))
           /\ ShapedLike(Head(iterator)) # Qualifying(Head(iterator))) =>
           LET e == Head(iterator)
               q == Qualifying(e)
           IN  /\ q = {} =>
                      /\ Handed = compute_matched_rules(e)
                      /\ pass'.computed = Append(pass.computed, e)
                      /\ pass'.cached = pass.cached
               /\ q # {} =>
                      /\ Handed = cache[CHOOSE i \in q : \A j \in q : i <= j].rules
                      /\ pass'.cached = Append(pass.cached, e)]_vars

\* C32 witness: the list of an entity was computed although the cache held an
\* entry of its shape, whose rule has a positional selector that does not match
\* the entity and another selector that does.
C32_Witness ==
    /\ pc = "matching"
    /\ \E e \in Range(pass.computed), i \in 1..Len(cache), j \in 1..Len(rules) :
          /\ cache[i].entity # e
          /\ has_same_selector(cache[i].entity, e)
          /\ get_layout_parent(cache[i].entity) = get_layout_parent(e)
          /\ ~is_first_child(e) /\ ~is_last_child(e)
          /\ rules[j].rule \in RuleIds(cache[i].rules)
          /\ rules[j].rule \in RuleIds(MatchedOf(e))
          /\ \E k \in 1..Len(rules[j].selectors) :
                /\ HasNthComponent(rules[j].selectors[k])
                /\ ~matches_selector(rules[j].selectors[k], e)
          /\ ~HasNthComponent(rules[j].selectors[1])

\* The entity is outside the group of the dirty entity processed before it: it is
\* a first or a last child, or its layout parent is another one.
PreviousDirty == pass.matched[Len(pass.matched)][1]
OutsideGroup(e) ==
    \/ is_first_child(e)
    \/ is_last_child(e)
    \/ /\ pass.matched # <<>>
       /\ get_layout_parent(e) # get_layout_parent(PreviousDirty)

\* C33: a dirty entity that is a first or a last child, or whose layout parent is
\* not the one of the dirty entity processed before it, does not use the cache:
\* its list is the fully matched one, and after the step the cache holds its
\* entry alone.
C33_OutsideGroupNeverUsesCache ==
    [][(MatchStep /\ OutsideGroup(Head(iterator))) =>
           /\ Handed = compute_matched_rules(Head(iterator))
           /\ pass'.computed = Append(pass.computed, Head(iterator))
           /\ pass'.cached = pass.cached
           /\ cache' = <<[entity |-> Head(iterator), rules |-> Handed]>>]_vars

\* C33 witness: a middle child was matched after a dirty entity of another layout
\* parent whose entry, of the same shape, had been in the cache; the cache holds
\* the entry of the middle child alone.
C33_Witness ==
    /\ pc = "matching"
    /\ Len(pass.matched) >= 2
    /\ LET e == pass.matched[Len(pass.matched)][1]
           before == pass.matched[Len(pass.matched) - 1][1]
       IN  /\ ~is_first_child(e) /\ ~is_last_child(e)
           /\ get_layout_parent(e) # get_layout_parent(before)
           /\ has_same_selector(before, e)
           /\ before \in Range(pass.computed)
           /\ Len(cache) = 1
           /\ cache[1].entity = e

\* C34: while the pass is in its Matching phase every entry of the cache is of an
\* entity whose layout parent is the current parent group, and its rule list is
\* the one full matching produced for the entity earlier in the pass; before the
\* pass has matched any entity the cache is empty.
C34_CacheHoldsCurrentGroup ==
    pc = "matching" =>
        /\ pass.matched = <<>> => cache = <<>>
        /\ \A i \in 1..Len(cache) :
              /\ get_layout_parent(cache[i].entity) = parent
              /\ cache[i].entity \in Range(pass.computed)
              /\ cache[i].rules = MatchedOf(cache[i].entity)
              /\ cache[i].rules = compute_matched_rules(cache[i].entity)

\* C34 witness: the cache holds two entries of the current group after the entry
\* of an entity of another group was dropped from it.
C34_Witness ==
    /\ pc = "matching"
    /\ Len(cache) >= 2
    /\ \E e \in Range(pass.computed) :
          /\ ~HasEntryFor(cache, e)
          /\ get_layout_parent(e) # parent

\* The places of a rule in a rule list, and the selectors of a rule that match.
PlacesOf(list, r) == {i \in 1..Len(list) : list[i][1] = r.rule}
MatchingSelectors(r, e) ==
    {k \in 1..Len(r.selectors) : matches_selector(r.selectors[k], e)}

\* C35: in the list compute_matched_rules returns no rule appears twice, a rule
\* appears exactly when one of its selectors matches the entity, and the
\* specificity recorded with it is the one of the first of its selectors, in the
\* order of the rule, that matches.
C35_ComputedListHoldsMatchingRulesOnce ==
    pc = "matching" =>
        \A e \in Range(pass.computed) :
            /\ RuleIds(MatchedOf(e)) \subseteq {rules[j].rule : j \in 1..Len(rules)}
            /\ \A j \in 1..Len(rules) :
                  LET places == PlacesOf(MatchedOf(e), rules[j])
                      hits == MatchingSelectors(rules[j], e)
                  IN  /\ Cardinality(places) <= 1
                      /\ places # {} <=> hits # {}
                      /\ \A i \in places :
                            \E k \in hits :
                                /\ \A h \in hits : k <= h
                                /\ MatchedOf(e)[i][2] = specificity(rules[j].selectors[k])

\* C35 witness: the list computed for an entity holds a rule with two matching
\* selectors of which the second has the greater specificity, and the rule set
\* has a rule that is not in the list.
C35_Witness ==
    /\ pc = "matching"
    /\ \E e \in Range(pass.computed), j \in 1..Len(rules) :
          /\ PlacesOf(MatchedOf(e), rules[j]) # {}
          /\ MatchingSelectors(rules[j], e) = {1, 2}
          /\ specificity(rules[j].selectors[1]) < specificity(rules[j].selectors[2])
          /\ \E f \in Range(pass.computed), n \in 1..Len(rules) :
                PlacesOf(MatchedOf(f), rules[n]) = {}

\* C36: the step of the loop for a dirty entity with an empty rule list does not
\* link: every value of the entity stays as it was, also a value a rule gave it
\* in an earlier pass, the redraw list stays as it was, and neither the relayout
\* flag nor a text update is raised.
C36_EmptyListSkipsLinking ==
    [][(MatchStep /\ Handed = <<>>) =>
           /\ \A p \in PropNames : props'[p][Head(iterator)] = props[p][Head(iterator)]
           /\ redraw_entities' = redraw_entities
           /\ relayout' = relayout
           /\ text_update' = text_update]_vars

\* C36 witness: in the Matching phase an entity was given the empty list and
\* still holds, as its own, a value of a rule of the rule set.
C36_Witness ==
    /\ pc = "matching"
    /\ \E i \in 1..Len(pass.matched), p \in PropNames :
          /\ pass.matched[i][2] = <<>>
          /\ props[p][pass.matched[i][1]].kind = "shared"
          /\ ~props[p][pass.matched[i][1]].inherited

\* A call of match_non_ts_pseudo_class with :enabled or :disabled, and what the
\* claim expects of it: :disabled matches exactly when the disabled value of the
\* entity is true, and :enabled exactly when it is not.
AbilityCall ==
    /\ probe' # probe
    /\ probe'.pseudo \in {"Enabled", "Disabled"}
IsDisabled(e) == Get("disabled", e) = Some("true")
AbilityExpected ==
    IF (probe'.pseudo = "Disabled") = IsDisabled(probe'.entity) THEN "true" ELSE "false"

\* C37: for every entity exactly one of :enabled and :disabled matches: :disabled
\* when the disabled value of the entity is true and :enabled otherwise, whether
\* or not the entity has an entry of pseudo-class flags.
C37_EnabledOrDisabledMatches ==
    [][AbilityCall => probe'.outcome = AbilityExpected]_vars

\* The linking of a step raised the relayout flag, or marked an entity for a text
\* update.
RaisedRelayout == ~relayout /\ relayout'
RaisedReflow == text_update' # text_update

\* C38: when the linking of an entity raises the relayout flag or marks an
\* ancestor for a text update, the entity is pushed to the redraw list in the
\* same call.
C38_RelayoutAndReflowImplyRedraw ==
    [][(MatchStep /\ (RaisedRelayout \/ RaisedReflow)) =>
           redraw_entities' = Append(redraw_entities, Head(iterator))]_vars

\* C38 witness: the linking of the entity matched last gave it the font size of a
\* rule; the relayout flag is up, an entity is marked for a text update, and the
\* entity is the last of the redraw list.
C38_Witness ==
    /\ pc = "matching"
    /\ pass.matched # <<>>
    /\ relayout
    /\ text_update # {}
    /\ redraw_entities # <<>>
    /\ redraw_entities[Len(redraw_entities)] = PreviousDirty
    /\ props["font_size"][PreviousDirty].kind = "shared"
    /\ ~props["font_size"][PreviousDirty].inherited

\* The two maps of the backend refer only to window entities of the Context, and
\* every window entity of the Context has a backend window.
WindowsSynced(a) ==
    /\ BackendEntities(a) \subseteq a.cx.windows
    /\ IdEntities(a) \subseteq a.cx.windows
    /\ a.cx.windows \subseteq BackendEntities(a)

\* A call of about_to_wait starts, returns, and a window is closed.
AboutToWaitStarts ==
    app.event_loop.at = "dispatch" /\ app'.event_loop.at \in {"flush", "exited"}
AboutToWaitReturns ==
    app.event_loop.at = "wake" /\ app'.event_loop.at \in {"waiting", "exited"}
WindowCloses ==
    /\ app.event_loop.at = "dispatch" /\ app'.event_loop.at = "dispatch"
    /\ app'.windows # app.windows

\* C39: after a call of about_to_wait that does not exit and after a window
\* close the two maps of the backend refer only to window entities of the
\* Context and every window entity of the Context has a backend window; a call
\* of about_to_wait asks the event loop to exit exactly when no backend window
\* is left, and a call that starts without a window flushes no event.
C39_BackendWindowsFollowContext ==
    [][/\ (WindowCloses \/ (AboutToWaitReturns /\ app'.event_loop.at = "waiting"))
              => WindowsSynced(app')
       /\ AboutToWaitStarts =>
              /\ app'.event_loop.at = "exited" <=> app.windows = {}
              /\ app.windows = {} =>
                     /\ app'.handled = app.handled
                     /\ app'.cx = app.cx
                     /\ app'.steps = <<>>
       /\ AboutToWaitReturns => (app'.event_loop.at = "exited" <=> app'.windows = {})
       /\ app.event_loop.at = "exited" => app' = app]_vars

\* C39 witness: a call of about_to_wait has returned after a window was created
\* for a window entity the handlers entered in the Context, and another window is
\* gone; events have been flushed.
C39_Witness ==
    /\ app.event_loop.at = "waiting"
    /\ app.ids = MaxWindows
    /\ Cardinality(app.windows) = 2
    /\ app.handled # {}
    /\ WindowsSynced(app)

\* The nearest entity, from the current one up to the root, that holds a T in
\* its model store or as its view, and what the claim has data::<T>() return.
Holders(current, T) ==
    {i \in 1..Len(parent_iter(current)) :
        \/ T \in draw.models[parent_iter(current)[i]]
        \/ views[parent_iter(current)[i]] = Some(T)}
NearestData(current, T) ==
    IF Holders(current, T) = {} THEN None
    ELSE LET e == parent_iter(current)[CHOOSE i \in Holders(current, T) :
                                           \A j \in Holders(current, T) : i <= j]
         IN IF T \in draw.models[e] THEN Some(ModelOf(e)) ELSE Some(ViewOf(e))

\* C40: data::<T>() returns the data of type T of the nearest entity on the path
\* from the current entity to the root, the model store of an entity before its
\* view; None when no entity of the path holds a T; never the data of an entity
\* off the path.
C40_DataIsOfNearestHolder ==
    draw.by # "" => draw.found = NearestData(draw.entity, draw.type)

====
